---- MODULE Spec2Model ----
(***************************************************************************)
(* A model of the bptree repository: the disk-resident B+ tree of          *)
(* diskbptree/diskbptree.go (nodes paged through a file, a master page at  *)
(* offset 0) and the in-memory B+ tree of package bptree.                  *)
(*                                                                         *)
(* Byte slices are sequences of byte values; the nil slice is Nil.  A slot *)
(* of a node's Pointers array (interface{} in the source) is a tagged      *)
(* record, so that a comparison of two slots of different dynamic type is  *)
(* false as it is in Go.  The code indexes from 0; At and Put keep the     *)
(* source's indices on TLA+'s 1-based sequences.                           *)
(***************************************************************************)
EXTENDS Integers, Sequences, FiniteSets, TLC

VARIABLES dbFile, masterPage, keySize, bt_root, bt_heap, bt_keySize,
          workload, written, hist

vars == <<dbFile, masterPage, keySize, bt_root, bt_heap, bt_keySize,
          workload, written, hist>>

---------------------------------------------------------------------------
(* Program constants of the disk tree.                                     *)
m_ORDER == 4
m_ORDER_HALF == m_ORDER \div 2 + (m_ORDER % 2)
m_MASTER_PAGE_SIZE == 4096
m_PAGE_SIZE == 8192
m_GCM_IV_SIZE == 12
m_GCM_AUTH_SIZE == 16
m_PAGE_DATA_SIZE == m_PAGE_SIZE - m_GCM_IV_SIZE - m_GCM_AUTH_SIZE
MaxUint16 == 65535

(* Bounds of the model.                                                    *)
\* keys "01", "02", ... inserted in arbitrary order
NumKeys == 4
\* keys "01", "02", ... inserted in ascending or in descending order
DeepKeys == 10
\* node pages the file may hold; an Insert that would exceed it is not taken
MaxPages == 8
\* successful Delete and Update calls of one run
MaxDeletes == 2
MaxUpdates == 1
\* successful Delete calls of one run of the in-memory tree in arbitrary order
MemDeletes == 3
\* calls that change a tree in one run of the two trees side by side
PairCalls == 6

---------------------------------------------------------------------------
(* Errors.                                                                 *)
OK == "OK"
KEY_NOT_FOUND_ERROR == "KEY_NOT_FOUND"
KEY_ALREADY_EXISTS_ERROR == "KEY_ALREADY_EXISTS"
INVALID_DATA_ERROR == "INVALID_DATA"
KEY_SIZE_TOO_LARGE == "KEY_SIZE_TOO_LARGE"
INVALID_KEY_SIZE_ERROR == "INVALID_KEY_SIZE"
INVALID_KEY_INDEX_ERROR == "INVALID_KEY_INDEX"
INVALID_POINTER_INDEX_ERROR == "INVALID_POINTER_INDEX"
TYPE_CONVERSION_ERROR == "TYPE_CONVERSION"
\* readNode's errors.New values and the file's own errors
TREE_EMPTY == "TREE_EMPTY"
INVALID_READ_INDEX == "INVALID_READ_INDEX"
IO_EOF == "EOF"
\* a nil pointer dereference or a failed type assertion: the call panics
PANIC == "PANIC"

---------------------------------------------------------------------------
(* Byte slices.                                                            *)
Nil == <<-1>>

\* len(b): 0 for the nil slice
GoLen(b) == IF b = Nil THEN 0 ELSE Len(b)

Bytes(b) == IF b = Nil THEN <<>> ELSE b

RECURSIVE Lex(_, _)
Lex(a, b) ==
    IF a = <<>> /\ b = <<>> THEN 0
    ELSE IF a = <<>> THEN -1
    ELSE IF b = <<>> THEN 1
    ELSE IF Head(a) < Head(b) THEN -1
    ELSE IF Head(a) > Head(b) THEN 1
    ELSE Lex(Tail(a), Tail(b))

\* bytes.Compare: lexicographic, a nil slice compares as the empty slice
Compare(a, b) == Lex(Bytes(a), Bytes(b))

At(s, i) == s[i + 1]
Put(s, i, v) == [s EXCEPT ![i + 1] = v]

(* Pointer slots.                                                          *)
PNil == [t |-> "nil", b |-> <<>>, p |-> 0]
PVal(b) == [t |-> "val", b |-> b, p |-> 0]
POff(p) == [t |-> "off", b |-> <<>>, p |-> p]
\* a *DiskBTreeNode handed to insertIntoNode or deleteEntry as the pointer
PNode(p) == [t |-> "node", b |-> <<>>, p |-> p]

---------------------------------------------------------------------------
(* Nodes and pages.                                                        *)
makeNode(ptr) ==
    [Ptr |-> ptr, IsLeaf |-> FALSE, Numkeys |-> 0, Parent |-> 0, Next |-> 0,
     Prev |-> 0, Keysize |-> 0,
     Keys |-> [i \in 1..(m_ORDER - 1) |-> Nil],
     Pointers |-> [i \in 1..m_ORDER |-> PNil]]

makeLeaf(ptr) == [makeNode(ptr) EXCEPT !.IsLeaf = TRUE]

\* copy(dst[start:start+size], key): the key cut or zero-padded to size bytes
Fit(key, size) ==
    [i \in 1..size |-> IF i <= Len(Bytes(key)) THEN Bytes(key)[i] ELSE 0]

\* The page image of a node: the header fields, the first Numkeys keys in
\* Keysize bytes each, and the values (leaf) or the Numkeys+1 child offsets.
\* A value is written as its length and its bytes: a nil value as no bytes.
\* The node's own offset and the slots past Numkeys are not encoded.
ToBytes(n) ==
    [IsLeaf |-> n.IsLeaf, Numkeys |-> n.Numkeys, Parent |-> n.Parent,
     Next |-> n.Next, Prev |-> n.Prev, Keysize |-> n.Keysize,
     Keys |-> [i \in 1..n.Numkeys |-> Fit(n.Keys[i], n.Keysize)],
     Vals |-> IF n.IsLeaf THEN [i \in 1..n.Numkeys |-> Bytes(n.Pointers[i].b)]
              ELSE <<>>,
     Offs |-> IF n.IsLeaf THEN <<>>
              ELSE [i \in 1..(n.Numkeys + 1) |-> n.Pointers[i].p]]

BytesToNode(b, ptr) ==
    [Ptr |-> ptr, IsLeaf |-> b.IsLeaf, Numkeys |-> b.Numkeys,
     Parent |-> b.Parent, Next |-> b.Next, Prev |-> b.Prev,
     Keysize |-> b.Keysize,
     Keys |-> [i \in 1..(m_ORDER - 1) |->
                 IF i <= b.Numkeys THEN b.Keys[i] ELSE Nil],
     Pointers |-> [i \in 1..m_ORDER |->
                 IF b.IsLeaf
                 THEN (IF i <= b.Numkeys THEN PVal(b.Vals[i]) ELSE PNil)
                 ELSE (IF i <= b.Numkeys + 1 THEN POff(b.Offs[i]) ELSE PNil)]]

\* a page of zero bytes (a hole left by a write past the end of the file)
ZeroPage ==
    [IsLeaf |-> FALSE, Numkeys |-> 0, Parent |-> 0, Next |-> 0, Prev |-> 0,
     Keysize |-> 0, Keys |-> <<>>, Vals |-> <<>>, Offs |-> <<0>>]

---------------------------------------------------------------------------
(* The file: the master page (absent in an empty file) and the node pages  *)
(* in file order; page k starts at m_MASTER_PAGE_SIZE + k * m_PAGE_SIZE.   *)
NoMaster == [present |-> FALSE, root |-> 0, pageCount |-> 0]
EmptyFile == [master |-> NoMaster, pages |-> <<>>]

\* the cached *MasterPage; isNil for the nil pointer
NilMasterPage == [isNil |-> TRUE, root |-> 0, pageCount |-> 0]

FileSize(f) ==
    IF f.master.present
    THEN m_MASTER_PAGE_SIZE + Len(f.pages) * m_PAGE_SIZE
    ELSE 0

PageOffset(k) == m_MASTER_PAGE_SIZE + k * m_PAGE_SIZE
PageIndex(ptr) == (ptr - m_MASTER_PAGE_SIZE) \div m_PAGE_SIZE
IsPageOffset(ptr) ==
    ptr >= m_MASTER_PAGE_SIZE /\ (ptr - m_MASTER_PAGE_SIZE) % m_PAGE_SIZE = 0

\* The tree object and its file, as one value threaded through a call.
Tree(f, mp, ks) == [f |-> f, mp |-> mp, ks |-> ks]

NoNode == makeNode(0)

readMasterPage(t) ==
    [t EXCEPT !.mp = [isNil |-> FALSE, root |-> t.f.master.root,
                      pageCount |-> t.f.master.pageCount]]

\* the root offset is written, the page count of the file is left
writeMasterPage_rootOnly(t) ==
    [t EXCEPT !.f.master = [present |-> TRUE, root |-> t.mp.root,
                            pageCount |-> t.f.master.pageCount]]

writeMasterPage(t) ==
    [t EXCEPT !.f.master = [present |-> TRUE, root |-> t.mp.root,
                            pageCount |-> t.mp.pageCount]]

\* (pageCount-1)*m_PAGE_SIZE+m_MASTER_PAGE_SIZE is computed in uint64: with
\* pageCount = 0 it wraps to 2^64 - 4096, which no offset of the model exceeds.
readNode(t, ptr) ==
    IF t.mp.isNil THEN [err |-> TREE_EMPTY, node |-> NoNode]
    ELSE IF t.mp.pageCount > 0
            /\ ptr > (t.mp.pageCount - 1) * m_PAGE_SIZE + m_MASTER_PAGE_SIZE
    THEN [err |-> INVALID_READ_INDEX, node |-> NoNode]
    ELSE IF ~IsPageOffset(ptr) \/ PageIndex(ptr) >= Len(t.f.pages)
            \/ ~t.f.master.present
    THEN [err |-> IO_EOF, node |-> NoNode]
    ELSE [err |-> OK, node |-> BytesToNode(t.f.pages[PageIndex(ptr) + 1], ptr)]

writeNode(t, nodeBytes, ptr) ==
    LET k == PageIndex(ptr)
        n == Len(t.f.pages)
        grown == [i \in 1..(IF k + 1 > n THEN k + 1 ELSE n) |->
                    IF i = k + 1 THEN nodeBytes
                    ELSE IF i <= n THEN t.f.pages[i] ELSE ZeroPage]
    IN [t EXCEPT !.f.pages = grown,
                 !.f.master = IF t.f.master.present THEN t.f.master
                              ELSE [present |-> TRUE, root |-> 0, pageCount |-> 0]]

---------------------------------------------------------------------------
(* Searching a node.                                                       *)
RECURSIVE insertionScan(_, _, _)
insertionScan(node, key, i) ==
    IF i < node.Numkeys /\ Compare(key, At(node.Keys, i)) >= 0
    THEN insertionScan(node, key, i + 1)
    ELSE i

\* the number of keys k of the node with key > k: an equal key goes left
getInsertionIndex_strict(node, key) ==
    Cardinality({i \in 0..(node.Numkeys - 1) :
                    Compare(key, At(node.Keys, i)) > 0})

\* the number of leading keys k of the node with key >= k
getInsertionIndex(node, key) == insertionScan(node, key, 0)

\* the index of the first key equal to key, -1 if there is none
getKeyIndex(node, key) ==
    IF key = Nil THEN -1
    ELSE LET hits == {i \in 0..(node.Numkeys - 1) :
                        Compare(key, At(node.Keys, i)) = 0}
         IN IF hits = {} THEN -1
            ELSE CHOOSE i \in hits : \A j \in hits : i <= j

\* every pointer compared by ==, which never holds between two []byte
getPointerIndex_identity(node, pointer) ==
    IF pointer.t \in {"nil", "val"} THEN -1
    ELSE IF \E i \in 0..node.Numkeys : At(node.Pointers, i) = pointer
         THEN CHOOSE i \in 0..node.Numkeys :
                  /\ At(node.Pointers, i) = pointer
                  /\ \A j \in 0..(i - 1) : At(node.Pointers, j) # pointer
         ELSE -1

\* A []byte pointer is compared by content with the slots asserted to be
\* []byte (a slot of another type panics: -2); any other pointer by ==.
getPointerIndex(node, pointer) ==
    IF pointer.t = "nil" THEN -1
    ELSE LET n == node.Numkeys + (IF node.IsLeaf THEN 0 ELSE 1)
             hits == {i \in 0..(n - 1) : At(node.Pointers, i) = pointer}
             first == IF hits = {} THEN n
                      ELSE CHOOSE i \in hits : \A j \in hits : i <= j
         IN IF pointer.t = "val"
               /\ \E i \in 0..(n - 1) : i <= first /\ i < n
                                        /\ At(node.Pointers, i).t # "val"
            THEN -2
            ELSE IF hits = {} THEN -1 ELSE first

\* Keys at and after the insertion index move one slot right, and with
\* them the pointers (one slot further right in an internal node).  An
\* internal node stores the offset of the node handed in.
insertIntoNode(node, key, pointer) ==
    LET ins == getInsertionIndex(node, key)
        adj == IF node.IsLeaf THEN 0 ELSE 1
        stored == IF node.IsLeaf THEN pointer ELSE POff(pointer.p)
    IN [node EXCEPT
          !.Keys = [i \in DOMAIN node.Keys |->
                      IF i - 1 < ins THEN node.Keys[i]
                      ELSE IF i - 1 = ins THEN key
                      ELSE IF i - 1 <= node.Numkeys THEN node.Keys[i - 1]
                      ELSE node.Keys[i]],
          !.Pointers = [i \in DOMAIN node.Pointers |->
                      IF i - 1 < ins + adj THEN node.Pointers[i]
                      ELSE IF i - 1 = ins + adj THEN stored
                      ELSE IF i - 1 <= node.Numkeys + adj
                      THEN node.Pointers[i - 1]
                      ELSE node.Pointers[i]],
          !.Numkeys = node.Numkeys + 1]

---------------------------------------------------------------------------
(* Descent.                                                                *)
\* v := ...; the rest of the function body is F
With(v, F(_)) == F(v)

RECURSIVE descend(_, _, _)
descend(t, node, key) ==
    IF node.IsLeaf THEN [err |-> OK, node |-> node]
    ELSE With(At(node.Pointers, getInsertionIndex(node, key)), LAMBDA slot :
         IF slot.t # "off"
         THEN [err |-> TYPE_CONVERSION_ERROR, node |-> NoNode]
         ELSE With(readNode(t, slot.p), LAMBDA r :
              IF r.err # OK THEN r ELSE descend(t, r.node, key)))

findLeaf(t, key) ==
    With(readNode(t, t.mp.root), LAMBDA r :
    IF r.err # OK THEN r ELSE descend(t, r.node, key))

Find(t, key) ==
    IF t.mp.isNil \/ key = Nil
    THEN [err |-> KEY_NOT_FOUND_ERROR, val |-> Nil]
    ELSE IF GoLen(key) # t.ks
    THEN [err |-> INVALID_KEY_SIZE_ERROR, val |-> Nil]
    ELSE With(findLeaf(t, key), LAMBDA r :
         IF r.err # OK THEN [err |-> r.err, val |-> Nil]
         ELSE With(getKeyIndex(r.node, key), LAMBDA idx :
              IF idx < 0
              THEN [err |-> KEY_NOT_FOUND_ERROR, val |-> Nil]
              ELSE IF At(r.node.Pointers, idx).t # "val"
              THEN [err |-> TYPE_CONVERSION_ERROR, val |-> Nil]
              ELSE [err |-> OK, val |-> At(r.node.Pointers, idx).b]))

Ret(e, t) == [err |-> e, t |-> t]

\* the new value stored in the leaf's first slot, whatever the key's index
Update_firstSlot(t, key, newValue) ==
    IF t.mp.isNil \/ key = Nil THEN Ret(KEY_NOT_FOUND_ERROR, t)
    ELSE IF GoLen(key) # t.ks THEN Ret(INVALID_KEY_SIZE_ERROR, t)
    ELSE With(findLeaf(t, key), LAMBDA r :
         IF r.err # OK THEN Ret(r.err, t)
         ELSE IF getKeyIndex(r.node, key) < 0 THEN Ret(KEY_NOT_FOUND_ERROR, t)
         ELSE With([r.node EXCEPT
                      !.Pointers = Put(r.node.Pointers, 0, PVal(newValue))],
                   LAMBDA leaf :
              Ret(OK, writeNode(t, ToBytes(leaf), leaf.Ptr))))

Update(t, key, newValue) ==
    IF t.mp.isNil \/ key = Nil THEN Ret(KEY_NOT_FOUND_ERROR, t)
    ELSE IF GoLen(key) # t.ks THEN Ret(INVALID_KEY_SIZE_ERROR, t)
    ELSE With(findLeaf(t, key), LAMBDA r :
         IF r.err # OK THEN Ret(r.err, t)
         ELSE With(getKeyIndex(r.node, key), LAMBDA idx :
              IF idx < 0 THEN Ret(KEY_NOT_FOUND_ERROR, t)
              ELSE With([r.node EXCEPT
                           !.Pointers = Put(r.node.Pointers, idx, PVal(newValue))],
                        LAMBDA leaf :
                   Ret(OK, writeNode(t, ToBytes(leaf), leaf.Ptr)))))

---------------------------------------------------------------------------
(* Insert and the recursive split.                                         *)
\* the offset one page past the end of the pages counted so far
\* the offset of the page allotted last
newPagePtr_last(t) == m_MASTER_PAGE_SIZE + (t.mp.pageCount - 1) * m_PAGE_SIZE

newPagePtr_skip(t) == m_MASTER_PAGE_SIZE + (t.mp.pageCount + 1) * m_PAGE_SIZE

newPagePtr(t) == m_MASTER_PAGE_SIZE + t.mp.pageCount * m_PAGE_SIZE

\* the loop reads the moved children and leaves their pages as they were
moveChildren_unwritten(t, slots, newParentPtr) == Ret(OK, t)

\* the loop of an internal split that rewrites, child by child, the parent
\* of the children moved to the new sibling; it stops at the first error
RECURSIVE moveChildren(_, _, _)
moveChildren(t, slots, newParentPtr) ==
    IF slots = <<>> THEN Ret(OK, t)
    ELSE IF Head(slots).t # "off" THEN Ret(TYPE_CONVERSION_ERROR, t)
    ELSE With(readNode(t, Head(slots).p), LAMBDA r :
         IF r.err # OK THEN Ret(r.err, t)
         ELSE With([r.node EXCEPT !.Parent = newParentPtr], LAMBDA childNode :
              moveChildren(writeNode(t, ToBytes(childNode), childNode.Ptr),
                           Tail(slots), newParentPtr)))

\* t.masterPage.pageCount++ has run in the caller of newPagePtr
splitRootAndInsert(t, node, newNode, nonLeafKeyToAddToParent) ==
    With([makeNode(newPagePtr(t)) EXCEPT
            !.Keys[1] = IF node.IsLeaf THEN At(newNode.Keys, 0)
                        ELSE nonLeafKeyToAddToParent,
            !.Pointers[1] = POff(node.Ptr),
            !.Pointers[2] = POff(newNode.Ptr),
            !.Numkeys = 1,
            !.Keysize = t.ks], LAMBDA newParent :
    With([t EXCEPT !.mp.pageCount = t.mp.pageCount + 1], LAMBDA t1 :
    With(writeNode(t1, ToBytes(newParent), newParent.Ptr), LAMBDA t2 :
    With(writeNode(t2, ToBytes([node EXCEPT !.Parent = newParent.Ptr]),
                   node.Ptr), LAMBDA t3 :
    With(writeNode(t3, ToBytes([newNode EXCEPT !.Parent = newParent.Ptr]),
                   newNode.Ptr), LAMBDA t4 :
    Ret(OK, writeMasterPage([t4 EXCEPT !.mp.root = newParent.Ptr])))))))

\* the node's keys and pointers in arrays one slot longer
tempNodeOf(node) ==
    [IsLeaf |-> node.IsLeaf, Numkeys |-> node.Numkeys,
     Keys |-> [i \in 1..m_ORDER |->
                 IF i <= node.Numkeys THEN node.Keys[i] ELSE Nil],
     Pointers |-> [i \in 1..(m_ORDER + 1) |->
                 IF i <= node.Numkeys + 1 THEN node.Pointers[i] ELSE PNil]]

\* the node keeps the first m_ORDER_HALF keys of tempNode
lowerHalf(node, newNodePtr, tempNode, adj) ==
    [node EXCEPT
       !.Next = IF node.IsLeaf THEN newNodePtr ELSE node.Next,
       !.Numkeys = m_ORDER_HALF,
       !.Keys = [i \in 1..(m_ORDER - 1) |->
                   IF i <= m_ORDER_HALF THEN tempNode.Keys[i] ELSE Nil],
       !.Pointers = [i \in 1..m_ORDER |->
                   IF i <= m_ORDER_HALF + adj THEN tempNode.Pointers[i]
                   ELSE PNil]]

\* the new sibling of a leaf made with makeNode: not marked as a leaf
upperHalf_notLeaf(t, node, newNodePtr, tempNode, adj) ==
    [(IF node.IsLeaf
      THEN [makeNode(newNodePtr) EXCEPT !.Next = node.Next, !.Prev = node.Ptr]
      ELSE makeNode(newNodePtr)) EXCEPT
       !.Keysize = t.ks,
       !.Parent = node.Parent,
       !.Numkeys = m_ORDER - m_ORDER_HALF - adj,
       !.Keys = [i \in 1..(m_ORDER - 1) |->
                   IF i <= m_ORDER - m_ORDER_HALF - adj
                   THEN tempNode.Keys[i + m_ORDER_HALF + adj] ELSE Nil],
       !.Pointers = [i \in 1..m_ORDER |->
                   IF i <= m_ORDER - m_ORDER_HALF
                   THEN tempNode.Pointers[i + m_ORDER_HALF + adj]
                   ELSE PNil]]

\* the new node takes the rest (an internal node gives up the middle key)
upperHalf(t, node, newNodePtr, tempNode, adj) ==
    [(IF node.IsLeaf
      THEN [makeLeaf(newNodePtr) EXCEPT !.Next = node.Next, !.Prev = node.Ptr]
      ELSE makeNode(newNodePtr)) EXCEPT
       !.Keysize = t.ks,
       !.Parent = node.Parent,
       !.Numkeys = m_ORDER - m_ORDER_HALF - adj,
       !.Keys = [i \in 1..(m_ORDER - 1) |->
                   IF i <= m_ORDER - m_ORDER_HALF - adj
                   THEN tempNode.Keys[i + m_ORDER_HALF + adj] ELSE Nil],
       !.Pointers = [i \in 1..m_ORDER |->
                   IF i <= m_ORDER - m_ORDER_HALF
                   THEN tempNode.Pointers[i + m_ORDER_HALF + adj]
                   ELSE PNil]]

RECURSIVE recursivelySplitAndInsert(_, _, _, _)
recursivelySplitAndInsert(t, node, key, pointer) ==
    With(IF node.IsLeaf THEN 0 ELSE 1, LAMBDA adj :
    With(insertIntoNode(tempNodeOf(node), key, pointer), LAMBDA tempNode :
    With(lowerHalf(node, newPagePtr(t), tempNode, adj), LAMBDA node1 :
    With(upperHalf(t, node, newPagePtr(t), tempNode, adj), LAMBDA newNode :
    With([t EXCEPT !.mp.pageCount = t.mp.pageCount + 1], LAMBDA t1 :
    With(IF node.IsLeaf THEN Ret(OK, t1)
         ELSE moveChildren(t1,
                [i \in 1..(m_ORDER - m_ORDER_HALF) |->
                    tempNode.Pointers[i + m_ORDER_HALF + adj]],
                newNode.Ptr), LAMBDA moved :
    With(IF node.IsLeaf THEN At(newNode.Keys, 0)
         ELSE At(tempNode.Keys, m_ORDER_HALF), LAMBDA sepKey :
    IF moved.err # OK THEN moved
    ELSE IF node1.Ptr = moved.t.mp.root
    THEN splitRootAndInsert(moved.t, node1, newNode,
                            At(tempNode.Keys, m_ORDER_HALF))
    ELSE With(writeMasterPage(
                writeNode(writeNode(moved.t, ToBytes(node1), node1.Ptr),
                          ToBytes(newNode), newNode.Ptr)), LAMBDA t4 :
         With(readNode(t4, node1.Parent), LAMBDA r :
         IF r.err # OK THEN Ret(r.err, t4)
         ELSE IF r.node.Numkeys < m_ORDER - 1
         THEN With(insertIntoNode(r.node, sepKey, PNode(newNode.Ptr)),
                   LAMBDA nodeParent :
              Ret(OK, writeNode(t4, ToBytes(nodeParent), nodeParent.Ptr)))
         ELSE recursivelySplitAndInsert(t4, r.node, sepKey,
                                        PNode(newNode.Ptr)))))))))))

\* the first Insert: the root leaf at the first page, the key size fixed
insertFirst(t, key, value) ==
    With([makeLeaf(m_MASTER_PAGE_SIZE) EXCEPT
            !.Keys[1] = key, !.Pointers[1] = PVal(value),
            !.Numkeys = 1, !.Keysize = Len(key)], LAMBDA rootNode :
    With([t EXCEPT !.ks = Len(key),
                   !.mp = [isNil |-> FALSE, root |-> rootNode.Ptr,
                           pageCount |-> 1]], LAMBDA t1 :
    Ret(OK, writeNode(writeMasterPage(t1), ToBytes(rootNode), rootNode.Ptr))))

\* The duplicate probe ignores a failed descent; with the probe failed and
\* the key of the right size, leaf is nil and leaf.Numkeys panics.
Insert(t, key, value) ==
    IF key = Nil \/ value = Nil THEN Ret(INVALID_DATA_ERROR, t)
    ELSE IF Len(key) > MaxUint16 THEN Ret(KEY_SIZE_TOO_LARGE, t)
    ELSE IF t.mp.isNil THEN insertFirst(t, key, value)
    ELSE With(findLeaf(t, key), LAMBDA r :
         IF r.err = OK /\ getKeyIndex(r.node, key) > -1
         THEN Ret(KEY_ALREADY_EXISTS_ERROR, t)
         ELSE IF Len(key) # t.ks THEN Ret(INVALID_KEY_SIZE_ERROR, t)
         ELSE IF r.err # OK THEN Ret(PANIC, t)
         ELSE IF r.node.Numkeys < m_ORDER - 1
         THEN With(insertIntoNode(r.node, key, PVal(value)), LAMBDA leaf :
              Ret(OK, writeNode(t, ToBytes(leaf), leaf.Ptr)))
         ELSE recursivelySplitAndInsert(t, r.node, key, PVal(value)))

---------------------------------------------------------------------------
(* Delete, borrow, merge.                                                  *)
RetN(e, t, n) == [err |-> e, t |-> t, node |-> n]

\* s[from..n-1] moved one slot left, slot n-1 set to fill
ShiftLeft(s, from, n, fill) ==
    [i \in DOMAIN s |->
        IF i - 1 >= from - 1 /\ i - 1 < n - 1 THEN s[i + 1]
        ELSE IF i - 1 = n - 1 THEN fill
        ELSE s[i]]

\* s[0..n-1] moved one slot right, slot 0 set to first
ShiftRight(s, n, first) ==
    [i \in DOMAIN s |->
        IF i = 1 THEN first ELSE IF i - 1 <= n THEN s[i - 1] ELSE s[i]]

\* the parent fix-up of removeFromNode: the removed key, found among the
\* parent's keys, is replaced by the leaf's new first key and the parent
\* written
fixParentKey(t, node, key) ==
    With(readNode(t, node.Parent), LAMBDA r :
    IF r.err # OK THEN RetN(r.err, t, node)
    ELSE With(getKeyIndex(r.node, key), LAMBDA oldKeyIdxInParent :
         IF oldKeyIdxInParent > -1
         THEN With([r.node EXCEPT
                      !.Keys = Put(r.node.Keys, oldKeyIdxInParent,
                                   At(node.Keys, 0))], LAMBDA nodeParent :
              RetN(OK, writeNode(t, ToBytes(nodeParent), nodeParent.Ptr), node))
         ELSE RetN(OK, t, node)))

\* The node handed in is changed in memory only; the one write is the
\* parent's.
removeFromNode(t, node, key, pointer) ==
    With(getKeyIndex(node, key), LAMBDA keyIdx :
    IF keyIdx < 0 THEN RetN(INVALID_KEY_INDEX_ERROR, t, node)
    ELSE With([node EXCEPT
                 !.Keys = ShiftLeft(node.Keys, keyIdx + 1, node.Numkeys, Nil)],
              LAMBDA keyed :
         With(getPointerIndex(keyed, pointer), LAMBDA pointerIdx :
         IF pointerIdx = -2 THEN RetN(PANIC, t, keyed)
         ELSE IF pointerIdx < 0 THEN RetN(INVALID_POINTER_INDEX_ERROR, t, keyed)
         ELSE With([keyed EXCEPT
                      !.Pointers =
                          ShiftLeft(keyed.Pointers, pointerIdx + 1,
                                    node.Numkeys + (IF node.IsLeaf THEN 0 ELSE 1),
                                    PNil),
                      !.Numkeys = node.Numkeys - 1], LAMBDA node1 :
              IF node1.IsLeaf /\ node1.Parent # 0 /\ keyIdx = 0
                 /\ node1.Numkeys > 0
              THEN fixParentKey(t, node1, key)
              ELSE RetN(OK, t, node1)))))

\* the index before the node's among its parent's children; -1 also when
\* the parent does not hold the node's offset
getSiblingIndex(t, node) ==
    With(readNode(t, node.Parent), LAMBDA r :
    IF r.err # OK THEN [err |-> r.err, idx |-> -1]
    ELSE With({i \in 0..r.node.Numkeys :
                 At(r.node.Pointers, i) = POff(node.Ptr)}, LAMBDA hits :
         IF hits = {} THEN [err |-> OK, idx |-> -1]
         ELSE [err |-> OK,
               idx |-> (CHOOSE i \in hits : \A j \in hits : i <= j) - 1]))

\* The root is read back from the file.  An empty root leaf truncates the
\* file to nothing; the cached master page is left as it is.
adjustRoot(t) ==
    With(readNode(t, t.mp.root), LAMBDA r :
    IF r.err # OK THEN Ret(r.err, t)
    ELSE IF r.node.Numkeys > 0 THEN Ret(OK, t)
    ELSE IF r.node.IsLeaf THEN Ret(OK, [t EXCEPT !.f = EmptyFile])
    ELSE IF At(r.node.Pointers, 0).t # "off" THEN Ret(TYPE_CONVERSION_ERROR, t)
    ELSE With(At(r.node.Pointers, 0).p, LAMBDA newRootPtr :
         With(readNode(t, newRootPtr), LAMBDA n :
         IF n.err # OK THEN Ret(n.err, t)
         ELSE Ret(OK, writeMasterPage(
                        writeNode([t EXCEPT !.mp.root = newRootPtr],
                                  ToBytes([n.node EXCEPT !.Parent = 0]),
                                  newRootPtr))))))

\* the node after borrowing: an internal node takes kPrime and the
\* sibling's nearest child, a leaf the sibling's nearest key and value
borrower(node, sibling, isLeftSibling, kPrime) ==
    LET sn == sibling.Numkeys
        nn == node.Numkeys
    IN IF ~node.IsLeaf
       THEN IF isLeftSibling
            THEN [node EXCEPT
                    !.Keys = ShiftRight(node.Keys, nn, kPrime),
                    !.Pointers = ShiftRight(node.Pointers, nn + 1,
                                            At(sibling.Pointers, sn)),
                    !.Numkeys = nn + 1]
            ELSE [node EXCEPT
                    !.Keys = Put(node.Keys, nn, kPrime),
                    !.Pointers = Put(node.Pointers, nn + 1,
                                     At(sibling.Pointers, 0)),
                    !.Numkeys = nn + 1]
       ELSE IF isLeftSibling
            THEN [node EXCEPT
                    !.Keys = ShiftRight(node.Keys, nn, At(sibling.Keys, sn - 1)),
                    !.Pointers = ShiftRight(node.Pointers, nn,
                                            At(sibling.Pointers, sn - 1)),
                    !.Numkeys = nn + 1]
            ELSE [node EXCEPT
                    !.Keys = Put(node.Keys, nn, At(sibling.Keys, 0)),
                    !.Pointers = Put(node.Pointers, nn, At(sibling.Pointers, 0)),
                    !.Numkeys = nn + 1]

\* the sibling after lending
lender(node, sibling, isLeftSibling) ==
    LET sn == sibling.Numkeys
    IN IF isLeftSibling
       THEN [sibling EXCEPT
               !.Keys = Put(sibling.Keys, sn - 1, Nil),
               !.Pointers = Put(sibling.Pointers,
                                IF node.IsLeaf THEN sn - 1 ELSE sn, PNil),
               !.Numkeys = sn - 1]
       ELSE [sibling EXCEPT
               !.Keys = ShiftLeft(sibling.Keys, 1, sn, Nil),
               !.Pointers = ShiftLeft(sibling.Pointers, 1,
                                      IF node.IsLeaf THEN sn ELSE sn + 1, PNil),
               !.Numkeys = sn - 1]

\* the key that replaces kPrime in the parent
borrowedSeparator(node, sibling, isLeftSibling) ==
    IF isLeftSibling THEN At(sibling.Keys, sibling.Numkeys - 1)
    ELSE IF node.IsLeaf THEN At(sibling.Keys, 1)
    ELSE At(sibling.Keys, 0)

\* The borrowed child of an internal node is read and its Parent set in
\* memory, but the child is not written back.
borrowFromSibling(t, node, sibling, isLeftSibling, kPrime, kPrimeIdx) ==
    With(readNode(t, node.Parent), LAMBDA p :
    With(IF isLeftSibling THEN At(sibling.Pointers, sibling.Numkeys)
         ELSE At(sibling.Pointers, 0), LAMBDA borrowed :
    IF p.err # OK THEN Ret(p.err, t)
    ELSE IF ~node.IsLeaf /\ borrowed.t # "off" THEN Ret(TYPE_CONVERSION_ERROR, t)
    ELSE IF ~node.IsLeaf /\ readNode(t, borrowed.p).err # OK
    THEN Ret(readNode(t, borrowed.p).err, t)
    ELSE With(borrower(node, sibling, isLeftSibling, kPrime), LAMBDA node1 :
         With(lender(node, sibling, isLeftSibling), LAMBDA sibling1 :
         With([p.node EXCEPT
                 !.Keys = Put(p.node.Keys, kPrimeIdx,
                              borrowedSeparator(node, sibling, isLeftSibling))],
              LAMBDA nodeParent :
         Ret(OK, writeNode(
                   writeNode(writeNode(t, ToBytes(node1), node1.Ptr),
                             ToBytes(sibling1), sibling1.Ptr),
                   ToBytes(nodeParent), nodeParent.Ptr)))))))

\* the loop of an internal merge that rewrites, child by child, the parent
\* of the children appended to the left participant
RECURSIVE adoptChildren(_, _, _)
adoptChildren(t, slots, siblingPtr) ==
    IF slots = <<>> THEN Ret(OK, t)
    ELSE IF Head(slots).t # "off" THEN Ret(TYPE_CONVERSION_ERROR, t)
    ELSE With(readNode(t, Head(slots).p), LAMBDA r :
         IF r.err # OK THEN Ret(r.err, t)
         ELSE With([r.node EXCEPT !.Parent = siblingPtr], LAMBDA borrowdChild :
              adoptChildren(writeNode(t, ToBytes(borrowdChild), borrowdChild.Ptr),
                            Tail(slots), siblingPtr)))

\* the left participant with the right one's keys and pointers appended
\* (an internal node takes kPrime first)
merged(node, sibling, kPrime) ==
    LET ins == sibling.Numkeys
        nn == node.Numkeys
    IN IF ~node.IsLeaf
       THEN [sibling EXCEPT
               !.Keys = [i \in DOMAIN sibling.Keys |->
                           IF i - 1 = ins THEN kPrime
                           ELSE IF i - 1 > ins /\ i - 1 <= ins + nn
                           THEN At(node.Keys, i - 1 - ins - 1)
                           ELSE sibling.Keys[i]],
               !.Pointers = [i \in DOMAIN sibling.Pointers |->
                           IF i - 1 > ins /\ i - 1 <= ins + 1 + nn
                           THEN At(node.Pointers, i - 1 - ins - 1)
                           ELSE sibling.Pointers[i]],
               !.Numkeys = ins + 1 + nn]
       ELSE [sibling EXCEPT
               !.Keys = [i \in DOMAIN sibling.Keys |->
                           IF i - 1 >= ins /\ i - 1 < ins + nn
                           THEN At(node.Keys, i - 1 - ins)
                           ELSE sibling.Keys[i]],
               !.Pointers = [i \in DOMAIN sibling.Pointers |->
                           IF i - 1 >= ins /\ i - 1 < ins + nn
                           THEN At(node.Pointers, i - 1 - ins)
                           ELSE sibling.Pointers[i]],
               !.Numkeys = ins + nn]

RECURSIVE deleteEntry(_, _, _, _)

\* node is the right participant, sibling the left.  After the merge the
\* separator is removed from the parent with the merged-away node itself
\* (a *DiskBTreeNode) as the pointer to look for.  An index past the end of
\* the left participant's arrays panics.
mergeInto(t, node, sibling, kPrime) ==
    IF sibling.Numkeys + node.Numkeys + (IF node.IsLeaf THEN 0 ELSE 1)
          > m_ORDER - 1
    THEN Ret(PANIC, t)
    ELSE With(IF node.IsLeaf THEN Ret(OK, t)
              ELSE adoptChildren(t, SubSeq(node.Pointers, 1, node.Numkeys + 1),
                                 sibling.Ptr), LAMBDA adopted :
         IF adopted.err # OK THEN adopted
         ELSE With(merged(node, sibling, kPrime), LAMBDA sibling1 :
              With(writeNode(writeNode(adopted.t, ToBytes(node), node.Ptr),
                             ToBytes(sibling1), sibling1.Ptr), LAMBDA t2 :
              With(readNode(t2, node.Parent), LAMBDA r :
              IF r.err # OK THEN Ret(r.err, t2)
              ELSE deleteEntry(t2, r.node, kPrime, PNode(node.Ptr))))))

mergeNodes(t, node, sibling, isLeftSibling, kPrime) ==
    IF isLeftSibling THEN mergeInto(t, node, sibling, kPrime)
    ELSE mergeInto(t, sibling, node, kPrime)

\* the step of deleteEntry after an underflow: the sibling is read through
\* the parent, then lends a key or is merged
rebalance(t, node, gs) ==
    With(gs.idx + 1, LAMBDA nodeIdx :
    With(IF gs.idx < 0 THEN 1 ELSE gs.idx, LAMBDA siblingIdx :
    With(IF gs.idx < 0 THEN 0 ELSE gs.idx, LAMBDA kPrimeIdx :
    With(readNode(t, node.Parent), LAMBDA p :
    IF p.err # OK THEN Ret(p.err, t)
    ELSE With(At(p.node.Keys, kPrimeIdx), LAMBDA kPrime :
         With(At(p.node.Pointers, siblingIdx), LAMBDA slot :
         IF slot.t # "off" THEN Ret(TYPE_CONVERSION_ERROR, t)
         ELSE With(readNode(t, slot.p), LAMBDA s :
              IF s.err # OK THEN Ret(s.err, t)
              ELSE IF s.node.Numkeys > m_ORDER_HALF - 1
              THEN borrowFromSibling(t, node, s.node, siblingIdx < nodeIdx,
                                     kPrime, kPrimeIdx)
              ELSE mergeNodes(t, node, s.node, siblingIdx < nodeIdx,
                              kPrime))))))))

deleteEntry(t, node, key, pointer) ==
    With(removeFromNode(t, node, key, pointer), LAMBDA rm :
    IF rm.err # OK THEN Ret(rm.err, rm.t)
    ELSE IF rm.node.Ptr = rm.t.mp.root THEN adjustRoot(rm.t)
    ELSE IF rm.node.Numkeys > (m_ORDER_HALF - 1) - 1 THEN Ret(OK, rm.t)
    ELSE With(getSiblingIndex(rm.t, rm.node), LAMBDA gs :
         IF gs.err # OK THEN Ret(gs.err, rm.t)
         ELSE rebalance(rm.t, rm.node, gs)))

Delete(t, key) ==
    IF t.mp.isNil \/ key = Nil THEN Ret(KEY_NOT_FOUND_ERROR, t)
    ELSE With(findLeaf(t, key), LAMBDA r :
         IF r.err # OK THEN Ret(r.err, t)
         ELSE With(getKeyIndex(r.node, key), LAMBDA idx :
              IF idx < 0 THEN Ret(KEY_NOT_FOUND_ERROR, t)
              ELSE deleteEntry(t, r.node, key, At(r.node.Pointers, idx))))

\* Close, then newTreeFromFile on the same file: a fresh tree object whose
\* keySize is the zero value, with the master page read if the file holds
\* more than a master page.
newTreeFromFile(f) ==
    IF FileSize(f) > m_MASTER_PAGE_SIZE
    THEN readMasterPage(Tree(f, NilMasterPage, 0))
    ELSE Tree(f, NilMasterPage, 0)

---------------------------------------------------------------------------
(* The in-memory tree (package bptree).  Nodes live on a heap and are      *)
(* named by their index in it; 0 is the nil pointer.  A node changed       *)
(* through a pointer is replaced on the heap.                              *)
ORDER == 4
\* the split point one key further right
ORDER_HALF_right == ORDER \div 2 + 1

ORDER_HALF == ORDER \div 2 + (ORDER % 2)

INVALID_KEY_ERROR == "INVALID_KEY"

\* a *BTreeNode and a *Record in a pointer slot.  Pointers compare by
\* address: the Record of a key is named by the key, as a leaf holds one
\* Record per key and Update replaces it in its slot.
PTreeNode(n) == [t |-> "btnode", b |-> <<>>, p |-> n]
PRecord(value, key) ==
    [t |-> "rec", b |-> value,
     p |-> IF Len(key) = 2 THEN 10 * (key[1] - 48) + (key[2] - 48)
           ELSE Len(key) - 1]

bt_makeNode ==
    [Keys |-> [i \in 1..(ORDER - 1) |-> Nil], Numkeys |-> 0,
     Pointers |-> [i \in 1..ORDER |-> PNil], IsLeaf |-> FALSE,
     Parent |-> 0, Next |-> 0, Prev |-> 0]

bt_makeLeaf == [bt_makeNode EXCEPT !.IsLeaf = TRUE]

\* NewTree
bt_Tree(root, heap, ks) == [root |-> root, heap |-> heap, ks |-> ks]

\* *p = node, and a field of *p
SetNode(m, p, node) == [m EXCEPT !.heap[p] = node]
SetParent(m, p, parent) == [m EXCEPT !.heap[p].Parent = parent]

RECURSIVE bt_insertionScan(_, _, _)
bt_insertionScan(node, key, i) ==
    IF i < node.Numkeys /\ Compare(key, At(node.Keys, i)) >= 0
    THEN bt_insertionScan(node, key, i + 1)
    ELSE i

\* the number of keys k of the node with key > k: an equal key goes left
bt_getInsertionIndex_equalLeft(node, key) ==
    Cardinality({i \in 0..(node.Numkeys - 1) :
                    Compare(key, At(node.Keys, i)) > 0})

bt_getInsertionIndex(node, key) == bt_insertionScan(node, key, 0)

bt_getKeyIndex(node, key) ==
    IF key = Nil THEN -1
    ELSE With({i \in 0..(node.Numkeys - 1) : Compare(key, At(node.Keys, i)) = 0},
              LAMBDA hits :
         IF hits = {} THEN -1 ELSE CHOOSE i \in hits : \A j \in hits : i <= j)

bt_getPointerIndex(node, pointer) ==
    IF pointer.t = "nil" THEN -1
    ELSE With({i \in 0..(node.Numkeys + (IF node.IsLeaf THEN 0 ELSE 1) - 1) :
                 At(node.Pointers, i) = pointer}, LAMBDA hits :
         IF hits = {} THEN -1 ELSE CHOOSE i \in hits : \A j \in hits : i <= j)

bt_insertIntoNode(node, key, pointer) ==
    With(bt_getInsertionIndex(node, key), LAMBDA ins :
    With(IF node.IsLeaf THEN 0 ELSE 1, LAMBDA adj :
    [node EXCEPT
       !.Keys = [i \in DOMAIN node.Keys |->
                   IF i - 1 < ins THEN node.Keys[i]
                   ELSE IF i - 1 = ins THEN key
                   ELSE IF i - 1 <= node.Numkeys THEN node.Keys[i - 1]
                   ELSE node.Keys[i]],
       !.Pointers = [i \in DOMAIN node.Pointers |->
                   IF i - 1 < ins + adj THEN node.Pointers[i]
                   ELSE IF i - 1 = ins + adj THEN pointer
                   ELSE IF i - 1 <= node.Numkeys + adj THEN node.Pointers[i - 1]
                   ELSE node.Pointers[i]],
       !.Numkeys = node.Numkeys + 1]))

RECURSIVE bt_descend(_, _, _)
\* the descent ends at the node it starts from
bt_descend_stay(m, p, key) == [err |-> OK, p |-> p]

bt_descend(m, p, key) ==
    IF m.heap[p].IsLeaf THEN [err |-> OK, p |-> p]
    ELSE With(At(m.heap[p].Pointers, bt_getInsertionIndex(m.heap[p], key)),
              LAMBDA slot :
         IF slot.t # "btnode" THEN [err |-> TYPE_CONVERSION_ERROR, p |-> 0]
         ELSE bt_descend(m, slot.p, key))

bt_findLeaf(m, key) ==
    IF m.root = 0 \/ key = Nil THEN [err |-> KEY_NOT_FOUND_ERROR, p |-> 0]
    ELSE bt_descend(m, m.root, key)

bt_Find(m, key) ==
    IF key = Nil THEN [err |-> KEY_NOT_FOUND_ERROR, val |-> Nil]
    ELSE IF Len(key) # m.ks THEN [err |-> INVALID_KEY_SIZE_ERROR, val |-> Nil]
    ELSE With(bt_findLeaf(m, key), LAMBDA r :
         IF r.err # OK THEN [err |-> r.err, val |-> Nil]
         ELSE With(bt_getKeyIndex(m.heap[r.p], key), LAMBDA idx :
              IF idx < 0 THEN [err |-> KEY_NOT_FOUND_ERROR, val |-> Nil]
              ELSE IF At(m.heap[r.p].Pointers, idx).t # "rec"
              THEN [err |-> TYPE_CONVERSION_ERROR, val |-> Nil]
              ELSE [err |-> OK, val |-> At(m.heap[r.p].Pointers, idx).b]))

bt_Update(m, key, newValue) ==
    IF key = Nil THEN Ret(KEY_NOT_FOUND_ERROR, m)
    ELSE IF Len(key) # m.ks THEN Ret(INVALID_KEY_SIZE_ERROR, m)
    ELSE With(bt_findLeaf(m, key), LAMBDA r :
         IF r.err # OK THEN Ret(r.err, m)
         ELSE With(bt_getKeyIndex(m.heap[r.p], key), LAMBDA idx :
              IF idx < 0 THEN Ret(KEY_NOT_FOUND_ERROR, m)
              ELSE Ret(OK, [m EXCEPT !.heap[r.p].Pointers[idx + 1] =
                                         PRecord(newValue, key)])))

\* the loop of an internal split that points the children moved to the
\* new node at it; it stops at a slot that holds no node
RECURSIVE bt_moveChildren(_, _, _)
bt_moveChildren(m, slots, newNode) ==
    IF slots = <<>> THEN Ret(OK, m)
    ELSE IF Head(slots).t # "btnode" THEN Ret(TYPE_CONVERSION_ERROR, m)
    ELSE bt_moveChildren(SetParent(m, Head(slots).p, newNode), Tail(slots),
                         newNode)

bt_splitRootAndInsert(m, node, newNode, nonLeafKeyToAddToParent) ==
    With(Len(m.heap) + 1, LAMBDA newParent :
    [root |-> newParent,
     ks |-> m.ks,
     heap |-> Append(
        [m.heap EXCEPT ![node].Parent = newParent,
                       ![newNode].Parent = newParent],
        [bt_makeNode EXCEPT
           !.Keys[1] = IF m.heap[node].IsLeaf THEN At(m.heap[newNode].Keys, 0)
                       ELSE nonLeafKeyToAddToParent,
           !.Pointers[1] = PTreeNode(node),
           !.Pointers[2] = PTreeNode(newNode),
           !.Numkeys = 1])])

bt_tempNodeOf(node) ==
    [IsLeaf |-> node.IsLeaf, Numkeys |-> node.Numkeys,
     Keys |-> [i \in 1..ORDER |->
                 IF i <= node.Numkeys THEN node.Keys[i] ELSE Nil],
     Pointers |-> [i \in 1..(ORDER + 1) |->
                 IF i <= node.Numkeys + 1 THEN node.Pointers[i] ELSE PNil]]

bt_lowerHalf(node, newNode, tempNode, adj) ==
    [node EXCEPT
       !.Next = IF node.IsLeaf THEN newNode ELSE node.Next,
       !.Numkeys = ORDER_HALF,
       !.Keys = [i \in 1..(ORDER - 1) |->
                   IF i <= ORDER_HALF THEN tempNode.Keys[i] ELSE Nil],
       !.Pointers = [i \in 1..ORDER |->
                   IF i <= ORDER_HALF + adj THEN tempNode.Pointers[i] ELSE PNil]]

bt_upperHalf(node, p, tempNode, adj) ==
    [(IF node.IsLeaf
      THEN [bt_makeLeaf EXCEPT !.Next = node.Next, !.Prev = p]
      ELSE bt_makeNode) EXCEPT
       !.Parent = node.Parent,
       !.Numkeys = ORDER - ORDER_HALF - adj,
       !.Keys = [i \in 1..(ORDER - 1) |->
                   IF i <= ORDER - ORDER_HALF - adj
                   THEN tempNode.Keys[i + ORDER_HALF + adj] ELSE Nil],
       !.Pointers = [i \in 1..ORDER |->
                   IF i <= ORDER - ORDER_HALF
                   THEN tempNode.Pointers[i + ORDER_HALF + adj] ELSE PNil]]

RECURSIVE bt_recursivelySplitAndInsert(_, _, _, _)
bt_recursivelySplitAndInsert(m, p, key, pointer) ==
    With(m.heap[p], LAMBDA node :
    With(Len(m.heap) + 1, LAMBDA newNode :
    With(IF node.IsLeaf THEN 0 ELSE 1, LAMBDA adj :
    With(bt_insertIntoNode(bt_tempNodeOf(node), key, pointer), LAMBDA tempNode :
    With([m EXCEPT !.heap = Append(
                      [m.heap EXCEPT ![p] = bt_lowerHalf(node, newNode, tempNode, adj)],
                      bt_upperHalf(node, p, tempNode, adj))], LAMBDA m1 :
    With(IF node.IsLeaf THEN Ret(OK, m1)
         ELSE bt_moveChildren(m1,
                [i \in 1..(ORDER - ORDER_HALF) |->
                    tempNode.Pointers[i + ORDER_HALF + adj]],
                newNode), LAMBDA moved :
    With(IF node.IsLeaf THEN At(m1.heap[newNode].Keys, 0)
         ELSE At(tempNode.Keys, ORDER_HALF), LAMBDA sepKey :
    IF moved.err # OK THEN moved
    ELSE IF p = m.root
    THEN Ret(OK, bt_splitRootAndInsert(moved.t, p, newNode,
                                       At(tempNode.Keys, ORDER_HALF)))
    ELSE IF moved.t.heap[node.Parent].Numkeys < ORDER - 1
    THEN Ret(OK, SetNode(moved.t, node.Parent,
                         bt_insertIntoNode(moved.t.heap[node.Parent], sepKey,
                                           PTreeNode(newNode))))
    ELSE bt_recursivelySplitAndInsert(moved.t, node.Parent, sepKey,
                                      PTreeNode(newNode)))))))))

\* A value of nil is stored like any other.  With a root, a failed descent
\* and a key of the right size, leaf is nil and leaf.Numkeys panics.
bt_Insert(m, key, value) ==
    IF key = Nil THEN Ret(INVALID_KEY_ERROR, m)
    ELSE With(bt_findLeaf(m, key), LAMBDA r :
         IF r.err = OK /\ bt_getKeyIndex(m.heap[r.p], key) > -1
         THEN Ret(KEY_ALREADY_EXISTS_ERROR, m)
         ELSE IF m.root = 0
         THEN Ret(OK, [root |-> Len(m.heap) + 1,
                       ks |-> Len(key),
                       heap |-> Append(m.heap,
                          [bt_makeLeaf EXCEPT
                             !.Keys[1] = key,
                             !.Pointers[1] = PRecord(value, key),
                             !.Numkeys = 1])])
         ELSE IF Len(key) # m.ks THEN Ret(INVALID_KEY_SIZE_ERROR, m)
         ELSE IF r.err # OK THEN Ret(PANIC, m)
         ELSE IF m.heap[r.p].Numkeys < ORDER - 1
         THEN Ret(OK, SetNode(m, r.p, bt_insertIntoNode(m.heap[r.p], key,
                                                        PRecord(value, key))))
         ELSE bt_recursivelySplitAndInsert(m, r.p, key, PRecord(value, key)))

\* The parent's copy of the removed key is replaced by the leaf's new
\* first key only when it is found past the parent's first key.
bt_removeFromNode(m, p, key, pointer) ==
    With(m.heap[p], LAMBDA node :
    With(bt_getKeyIndex(node, key), LAMBDA keyIdx :
    IF keyIdx < 0 THEN Ret(INVALID_KEY_INDEX_ERROR, m)
    ELSE With([node EXCEPT
                 !.Keys = ShiftLeft(node.Keys, keyIdx + 1, node.Numkeys, Nil)],
              LAMBDA keyed :
         With(bt_getPointerIndex(keyed, pointer), LAMBDA pointerIdx :
         IF pointerIdx < 0
         THEN Ret(INVALID_POINTER_INDEX_ERROR, SetNode(m, p, keyed))
         ELSE With([keyed EXCEPT
                      !.Pointers =
                          ShiftLeft(keyed.Pointers, pointerIdx + 1,
                                    node.Numkeys + (IF node.IsLeaf THEN 0 ELSE 1),
                                    PNil),
                      !.Numkeys = node.Numkeys - 1], LAMBDA node1 :
              IF node1.IsLeaf /\ node1.Parent # 0 /\ keyIdx = 0
                 /\ node1.Numkeys > 0
                 /\ bt_getKeyIndex(m.heap[node1.Parent], key) > 0
              THEN Ret(OK, [SetNode(m, p, node1) EXCEPT
                              !.heap[node1.Parent].Keys[
                                  bt_getKeyIndex(m.heap[node1.Parent], key) + 1] =
                                  At(node1.Keys, 0)])
              ELSE Ret(OK, SetNode(m, p, node1)))))))

bt_getSiblingIndex(m, p) ==
    With(m.heap[m.heap[p].Parent], LAMBDA parent :
    With({i \in 0..parent.Numkeys : At(parent.Pointers, i) = PTreeNode(p)},
         LAMBDA hits :
    IF hits = {} THEN -1
    ELSE (CHOOSE i \in hits : \A j \in hits : i <= j) - 1))

\* an empty internal root hands the tree to its first child; an empty
\* leaf root leaves the tree without a root
bt_adjustRoot(m) ==
    IF m.heap[m.root].Numkeys > 0 THEN Ret(OK, m)
    ELSE IF ~m.heap[m.root].IsLeaf
    THEN With(At(m.heap[m.root].Pointers, 0), LAMBDA slot :
         IF slot.t # "btnode" THEN Ret(TYPE_CONVERSION_ERROR, m)
         ELSE Ret(OK, [SetParent(m, slot.p, 0) EXCEPT !.root = slot.p]))
    ELSE Ret(OK, [m EXCEPT !.root = 0])

bt_borrower(node, sibling, isLeftSibling, kPrime) ==
    With(sibling.Numkeys, LAMBDA sn :
    With(node.Numkeys, LAMBDA nn :
    IF ~node.IsLeaf
    THEN IF isLeftSibling
         THEN [node EXCEPT
                 !.Keys = ShiftRight(node.Keys, nn, kPrime),
                 !.Pointers = ShiftRight(node.Pointers, nn + 1,
                                         At(sibling.Pointers, sn)),
                 !.Numkeys = nn + 1]
         ELSE [node EXCEPT
                 !.Keys = Put(node.Keys, nn, kPrime),
                 !.Pointers = Put(node.Pointers, nn + 1, At(sibling.Pointers, 0)),
                 !.Numkeys = nn + 1]
    ELSE IF isLeftSibling
         THEN [node EXCEPT
                 !.Keys = ShiftRight(node.Keys, nn, At(sibling.Keys, sn - 1)),
                 !.Pointers = ShiftRight(node.Pointers, nn,
                                         At(sibling.Pointers, sn - 1)),
                 !.Numkeys = nn + 1]
         ELSE [node EXCEPT
                 !.Keys = Put(node.Keys, nn, At(sibling.Keys, 0)),
                 !.Pointers = Put(node.Pointers, nn, At(sibling.Pointers, 0)),
                 !.Numkeys = nn + 1]))

bt_lender(node, sibling, isLeftSibling) ==
    With(sibling.Numkeys, LAMBDA sn :
    IF isLeftSibling
    THEN [sibling EXCEPT
            !.Keys = Put(sibling.Keys, sn - 1, Nil),
            !.Pointers = Put(sibling.Pointers,
                             IF node.IsLeaf THEN sn - 1 ELSE sn, PNil),
            !.Numkeys = sn - 1]
    ELSE [sibling EXCEPT
            !.Keys = ShiftLeft(sibling.Keys, 1, sn, Nil),
            !.Pointers = ShiftLeft(sibling.Pointers, 1,
                                   IF node.IsLeaf THEN sn ELSE sn + 1, PNil),
            !.Numkeys = sn - 1])

bt_borrowedSeparator(node, sibling, isLeftSibling) ==
    IF isLeftSibling THEN At(sibling.Keys, sibling.Numkeys - 1)
    ELSE IF node.IsLeaf THEN At(sibling.Keys, 1)
    ELSE At(sibling.Keys, 0)

\* p borrows from s: the node takes a key, the sibling gives one up, the
\* parent's separator is replaced, and the child an internal node takes
\* over is pointed at it
bt_borrowFromSibling(m, p, s, isLeftSibling, kPrime, kPrimeIdx) ==
    With(m.heap[p], LAMBDA node :
    With(m.heap[s], LAMBDA sibling :
    With(bt_borrower(node, sibling, isLeftSibling, kPrime), LAMBDA node1 :
    With(IF isLeftSibling THEN At(sibling.Pointers, sibling.Numkeys)
         ELSE At(sibling.Pointers, 0), LAMBDA borrowed :
    IF ~node.IsLeaf /\ borrowed.t # "btnode"
    THEN Ret(TYPE_CONVERSION_ERROR,
             SetNode(m, p, [node1 EXCEPT !.Numkeys = node.Numkeys]))
    ELSE With([m EXCEPT
                 !.heap[p] = node1,
                 !.heap[s] = bt_lender(node, sibling, isLeftSibling),
                 !.heap[node.Parent].Keys[kPrimeIdx + 1] =
                     bt_borrowedSeparator(node, sibling, isLeftSibling)],
              LAMBDA m1 :
         Ret(OK, IF node.IsLeaf THEN m1 ELSE SetParent(m1, borrowed.p, p)))))))

\* the loop of an internal merge from its j-th round on: the right
\* participant's j-th key and pointer are appended to the left one, and
\* the child is pointed at it; the last round appends the pointer alone
RECURSIVE bt_adoptChildren(_, _, _, _, _)
bt_adoptChildren(m, node, sibling, i, j) ==
    With([m EXCEPT
            !.heap[sibling].Keys =
                IF j < m.heap[node].Numkeys
                THEN Put(@, i, At(m.heap[node].Keys, j)) ELSE @,
            !.heap[sibling].Pointers = Put(@, i, At(m.heap[node].Pointers, j))],
         LAMBDA m1 :
    IF At(m.heap[node].Pointers, j).t # "btnode"
    THEN Ret(TYPE_CONVERSION_ERROR, m1)
    ELSE With(SetParent(m1, At(m.heap[node].Pointers, j).p, sibling), LAMBDA m2 :
         IF j < m.heap[node].Numkeys
         THEN bt_adoptChildren(m2, node, sibling, i + 1, j + 1)
         ELSE Ret(OK, m2)))

\* the left leaf with the right leaf's keys and pointers appended
bt_merged(node, sibling) ==
    With(sibling.Numkeys, LAMBDA ins :
    [sibling EXCEPT
       !.Keys = [i \in DOMAIN sibling.Keys |->
                   IF i - 1 >= ins /\ i - 1 < ins + node.Numkeys
                   THEN At(node.Keys, i - 1 - ins) ELSE sibling.Keys[i]],
       !.Pointers = [i \in DOMAIN sibling.Pointers |->
                   IF i - 1 >= ins /\ i - 1 < ins + node.Numkeys
                   THEN At(node.Pointers, i - 1 - ins) ELSE sibling.Pointers[i]],
       !.Numkeys = ins + node.Numkeys])

RECURSIVE bt_deleteEntry(_, _, _, _)

\* node is the right participant, sibling the left.  The merged-away node
\* stays where it was; its separator and its pointer are removed from the
\* parent.  An index past the end of the left participant's arrays panics.
bt_mergeInto(m, node, sibling, kPrime) ==
    With(m.heap[sibling].Numkeys, LAMBDA insertionIndex :
    With(m.heap[node].Numkeys, LAMBDA nn :
    IF insertionIndex + nn + (IF m.heap[node].IsLeaf THEN 0 ELSE 1) > ORDER - 1
    THEN Ret(PANIC, m)
    ELSE IF m.heap[node].IsLeaf
    THEN bt_deleteEntry(
            SetNode(m, sibling, bt_merged(m.heap[node], m.heap[sibling])),
            m.heap[node].Parent, kPrime, PTreeNode(node))
    ELSE With(bt_adoptChildren(
                [m EXCEPT !.heap[sibling].Keys = Put(@, insertionIndex, kPrime),
                          !.heap[sibling].Numkeys = @ + 1],
                node, sibling, insertionIndex + 1, 0), LAMBDA adopted :
         IF adopted.err # OK THEN adopted
         ELSE bt_deleteEntry(
                 [adopted.t EXCEPT !.heap[sibling].Numkeys = @ + nn],
                 m.heap[node].Parent, kPrime, PTreeNode(node)))))

bt_mergeNodes(m, node, sibling, isLeftSibling, kPrime) ==
    IF isLeftSibling THEN bt_mergeInto(m, node, sibling, kPrime)
    ELSE bt_mergeInto(m, sibling, node, kPrime)

\* the step taken with a borrow from any sibling that holds a key
bt_rebalance_borrowAtMinimum(m, p, siblingIdx0) ==
    With(siblingIdx0 + 1, LAMBDA nodeIdx :
    With(IF siblingIdx0 < 0 THEN 1 ELSE siblingIdx0, LAMBDA siblingIdx :
    With(IF siblingIdx0 < 0 THEN 0 ELSE siblingIdx0, LAMBDA kPrimeIdx :
    With(m.heap[m.heap[p].Parent], LAMBDA parent :
    With(At(parent.Pointers, siblingIdx), LAMBDA slot :
    IF slot.t # "btnode" THEN Ret(TYPE_CONVERSION_ERROR, m)
    ELSE IF m.heap[slot.p].Numkeys >= ORDER_HALF - 1
    THEN bt_borrowFromSibling(m, p, slot.p, siblingIdx < nodeIdx,
                              At(parent.Keys, kPrimeIdx), kPrimeIdx)
    ELSE bt_mergeNodes(m, p, slot.p, siblingIdx < nodeIdx,
                       At(parent.Keys, kPrimeIdx)))))))

\* the step of deleteEntry after an underflow
bt_rebalance(m, p, siblingIdx0) ==
    With(siblingIdx0 + 1, LAMBDA nodeIdx :
    With(IF siblingIdx0 < 0 THEN 1 ELSE siblingIdx0, LAMBDA siblingIdx :
    With(IF siblingIdx0 < 0 THEN 0 ELSE siblingIdx0, LAMBDA kPrimeIdx :
    With(m.heap[m.heap[p].Parent], LAMBDA parent :
    With(At(parent.Pointers, siblingIdx), LAMBDA slot :
    IF slot.t # "btnode" THEN Ret(TYPE_CONVERSION_ERROR, m)
    ELSE IF m.heap[slot.p].Numkeys > ORDER_HALF - 1
    THEN bt_borrowFromSibling(m, p, slot.p, siblingIdx < nodeIdx,
                              At(parent.Keys, kPrimeIdx), kPrimeIdx)
    ELSE bt_mergeNodes(m, p, slot.p, siblingIdx < nodeIdx,
                       At(parent.Keys, kPrimeIdx)))))))

\* the entry removed and the node left as it is, however few keys remain
bt_deleteEntry_noRebalance(m, p, key, pointer) ==
    With(bt_removeFromNode(m, p, key, pointer), LAMBDA rm :
    IF rm.err # OK THEN rm
    ELSE IF p = rm.t.root THEN bt_adjustRoot(rm.t)
    ELSE Ret(OK, rm.t))

bt_deleteEntry(m, p, key, pointer) ==
    With(bt_removeFromNode(m, p, key, pointer), LAMBDA rm :
    IF rm.err # OK THEN rm
    ELSE IF p = rm.t.root THEN bt_adjustRoot(rm.t)
    ELSE IF rm.t.heap[p].Numkeys > (ORDER_HALF - 1) - 1 THEN Ret(OK, rm.t)
    ELSE bt_rebalance(rm.t, p, bt_getSiblingIndex(rm.t, p)))

\* Delete makes no check of the key's length
bt_Delete(m, key) ==
    IF key = Nil THEN Ret(KEY_NOT_FOUND_ERROR, m)
    ELSE With(bt_findLeaf(m, key), LAMBDA r :
         IF r.err # OK THEN Ret(r.err, m)
         ELSE With(bt_getKeyIndex(m.heap[r.p], key), LAMBDA idx :
              IF idx < 0 THEN Ret(KEY_NOT_FOUND_ERROR, m)
              ELSE bt_deleteEntry(m, r.p, key, At(m.heap[r.p].Pointers, idx))))

---------------------------------------------------------------------------
(* The workload, as in the tests: two-byte keys "01", "02", ... inserted   *)
(* in ascending, in descending or in arbitrary order, each with its value  *)
(* "v1", "v2", ...; Update writes "nv".  The calls are also made with a    *)
(* key of another length, the empty key, the nil slice and a key longer    *)
(* than a uint16 can count.                                                *)
Key(i) == <<48 + (i \div 10), 48 + (i % 10)>>
ValueOf(key) == IF Len(key) = 2 THEN <<118>> \o key ELSE <<118>>
NewValue == <<110, 118>>
ShortKey == <<49>>
EmptyKey == <<>>
LongKey == [i \in 1..(MaxUint16 + 1) |-> 48]

MaxKeys == IF DeepKeys > NumKeys THEN DeepKeys ELSE NumKeys
Keys == {Key(i) : i \in 1..MaxKeys}
Values == {ValueOf(k) : k \in Keys} \cup {NewValue}

\* keys an Insert can store, and the keys the operations are called with
StorableKeys == Keys \cup {ShortKey, EmptyKey}
ProbeKeys == StorableKeys \cup {Nil}

\* the keys Insert is called with
InsertKeys == ProbeKeys \cup {LongKey}
ArbitraryKeys == {Key(i) : i \in 1..NumKeys} \cup {ShortKey, EmptyKey, Nil, LongKey}

Workloads == {"ascending", "descending", "arbitrary"}

Never == [st |-> "never", v |-> Nil]
Inserted == {k \in StorableKeys : written[k].st # "never"}
Live == {k \in StorableKeys : written[k].st = "live"}
Dead == {k \in StorableKeys : written[k].st = "dead"}

\* the keys the workload inserts next; where the keys are inserted in
\* order, the inserts come before the deletes
Admits(key) ==
    CASE workload = "ascending" -> key = Key(Cardinality(Inserted) + 1)
                                   /\ Cardinality(Inserted) < DeepKeys
                                   /\ hist.deletes = 0
      [] workload = "descending" -> key = Key(DeepKeys - Cardinality(Inserted))
                                    /\ Cardinality(Inserted) < DeepKeys
                                    /\ hist.deletes = 0
      [] OTHER -> key \in ArbitraryKeys

\* the keys the workload deletes or updates next: any key, or, where the
\* keys are inserted in order, the smallest or the largest live key
EndKeys ==
    {k \in Live : \/ \A j \in Live : Compare(k, j) <= 0
                  \/ \A j \in Live : Compare(k, j) >= 0}
Touches(key) == workload = "arbitrary" \/ key \in EndKeys

\* the tree object of the current state
Cur == Tree(dbFile, masterPage, keySize)

(* History of the run: per key, whether it was never inserted, is live     *)
(* with the value last written by a successful Insert or Update, or was    *)
(* deleted by a successful Delete; the numbers of successful Deletes and   *)
(* Updates; whether the tree was reopened; whether a key was inserted a    *)
(* second time; the length of the first key accepted.                      *)
Init ==
    /\ dbFile = EmptyFile
    /\ masterPage = NilMasterPage
    /\ keySize = 0
    /\ bt_root = 0
    /\ bt_heap = <<>>
    /\ bt_keySize = 0
    /\ workload \in Workloads
    /\ written = [k \in StorableKeys |-> Never]
    /\ hist = [deletes |-> 0, updates |-> 0, reopened |-> FALSE,
               reinserted |-> FALSE, len |-> -1]

Install(t) ==
    /\ dbFile' = t.f
    /\ masterPage' = t.mp
    /\ keySize' = t.ks

InsertOp(key, value) ==
    LET r == Insert(Cur, key, value)
    IN /\ Admits(key)
       /\ r.t.mp.pageCount <= MaxPages
       /\ Install(r.t)
       /\ written' = IF r.err = OK
                     THEN [written EXCEPT ![key] = [st |-> "live", v |-> value]]
                     ELSE written
       /\ hist' = IF r.err = OK
                  THEN [hist EXCEPT
                          !.reinserted = @ \/ written[key].st # "never",
                          !.len = IF @ = -1 THEN Len(key) ELSE @]
                  ELSE hist
       /\ UNCHANGED <<workload, bt_root, bt_heap, bt_keySize>>

\* Find returns a value and an error and has nothing to write
FindOp(key) ==
    /\ Find(Cur, key).err \in {OK, KEY_NOT_FOUND_ERROR, INVALID_KEY_SIZE_ERROR}
    /\ UNCHANGED vars

UpdateOp(key, newValue) ==
    LET r == Update(Cur, key, newValue)
    IN /\ Touches(key)
       /\ hist.updates < MaxUpdates
       /\ Install(r.t)
       /\ written' = IF r.err = OK
                     THEN [written EXCEPT ![key] = [st |-> "live", v |-> newValue]]
                     ELSE written
       /\ hist' = IF r.err = OK THEN [hist EXCEPT !.updates = @ + 1] ELSE hist
       /\ UNCHANGED <<workload, bt_root, bt_heap, bt_keySize>>

DeleteOp(key) ==
    LET r == Delete(Cur, key)
    IN /\ Touches(key)
       /\ hist.deletes < MaxDeletes
       /\ Install(r.t)
       /\ written' = IF r.err = OK
                     THEN [written EXCEPT ![key] = [st |-> "dead", v |-> Nil]]
                     ELSE written
       /\ hist' = IF r.err = OK THEN [hist EXCEPT !.deletes = @ + 1] ELSE hist
       /\ UNCHANGED <<workload, bt_root, bt_heap, bt_keySize>>

\* Close, then newTreeFromFile on the same file
Reopen ==
    /\ Install(newTreeFromFile(dbFile))
    /\ hist' = [hist EXCEPT !.reopened = TRUE]
    /\ UNCHANGED <<written, workload, bt_root, bt_heap, bt_keySize>>

DoInsert == \E key \in InsertKeys :
                \E value \in {ValueOf(Bytes(key)), Nil} : InsertOp(key, value)
DoFind == \E key \in ProbeKeys : FindOp(key)
DoUpdate == \E key \in ProbeKeys : UpdateOp(key, NewValue)
DoDelete == \E key \in ProbeKeys : DeleteOp(key)

Next == DoInsert \/ DoFind \/ DoUpdate \/ DoDelete \/ Reopen

Spec == Init /\ [][Next]_vars

---------------------------------------------------------------------------
(* The same workload on the in-memory tree.                                *)
bt_Cur == bt_Tree(bt_root, bt_heap, bt_keySize)

bt_Install(m) ==
    /\ bt_root' = m.root
    /\ bt_heap' = m.heap
    /\ bt_keySize' = m.ks

\* Insert stores a nil value; the workload tries it on the first key
bt_Values(key) == IF key = Key(1) THEN {ValueOf(key), Nil} ELSE {ValueOf(Bytes(key))}

\* the in-memory run deletes without a bound where the keys are inserted
\* in order
bt_Deletes(key) ==
    Touches(key) /\ (workload = "arbitrary" => hist.deletes < MemDeletes)

bt_InsertOp(key, value) ==
    LET r == bt_Insert(bt_Cur, key, value)
    IN /\ Admits(key)
       /\ bt_Install(r.t)
       /\ written' = IF r.err = OK
                     THEN [written EXCEPT ![key] = [st |-> "live", v |-> value]]
                     ELSE written
       /\ hist' = IF r.err = OK
                  THEN [hist EXCEPT
                          !.reinserted = @ \/ written[key].st # "never",
                          !.len = IF @ = -1 THEN Len(key) ELSE @]
                  ELSE hist
       /\ UNCHANGED <<workload, dbFile, masterPage, keySize>>

bt_FindOp(key) ==
    /\ bt_Find(bt_Cur, key).err
          \in {OK, KEY_NOT_FOUND_ERROR, INVALID_KEY_SIZE_ERROR}
    /\ UNCHANGED vars

bt_UpdateOp(key, newValue) ==
    LET r == bt_Update(bt_Cur, key, newValue)
    IN /\ Touches(key)
       /\ hist.updates < MaxUpdates
       /\ bt_Install(r.t)
       /\ written' = IF r.err = OK
                     THEN [written EXCEPT ![key] = [st |-> "live", v |-> newValue]]
                     ELSE written
       /\ hist' = IF r.err = OK THEN [hist EXCEPT !.updates = @ + 1] ELSE hist
       /\ UNCHANGED <<workload, dbFile, masterPage, keySize>>

bt_DeleteOp(key) ==
    LET r == bt_Delete(bt_Cur, key)
    IN /\ bt_Deletes(key)
       /\ bt_Install(r.t)
       /\ written' = IF r.err = OK
                     THEN [written EXCEPT ![key] = [st |-> "dead", v |-> Nil]]
                     ELSE written
       /\ hist' = IF r.err = OK THEN [hist EXCEPT !.deletes = @ + 1] ELSE hist
       /\ UNCHANGED <<workload, dbFile, masterPage, keySize>>

bt_DoInsert == \E key \in ProbeKeys :
                   \E value \in bt_Values(key) : bt_InsertOp(key, value)
bt_DoFind == \E key \in ProbeKeys : bt_FindOp(key)
bt_DoUpdate == \E key \in ProbeKeys : bt_UpdateOp(key, NewValue)
bt_DoDelete == \E key \in ProbeKeys : bt_DeleteOp(key)

MemNext == bt_DoInsert \/ bt_DoFind \/ bt_DoUpdate \/ bt_DoDelete

MemSpec == Init /\ [][MemNext]_vars

---------------------------------------------------------------------------
(* The two trees side by side: every call is made on the tree on disk and  *)
(* on the in-memory tree, with the same arguments.  The history records a  *)
(* call that succeeded on either tree.                                     *)
PairBusy == Cardinality(Inserted) + hist.deletes + hist.updates < PairCalls

PairInsertOp(key, value) ==
    /\ Admits(key)
    /\ PairBusy
    /\ Insert(Cur, key, value).t.mp.pageCount <= MaxPages
    /\ Install(Insert(Cur, key, value).t)
    /\ bt_Install(bt_Insert(bt_Cur, key, value).t)
    /\ written' = IF OK \in {Insert(Cur, key, value).err, bt_Insert(bt_Cur, key, value).err}
                  THEN [written EXCEPT ![key] = [st |-> "live", v |-> value]]
                  ELSE written
    /\ hist' = IF OK \in {Insert(Cur, key, value).err, bt_Insert(bt_Cur, key, value).err}
               THEN [hist EXCEPT
                       !.reinserted = @ \/ written[key].st # "never",
                       !.len = IF @ = -1 THEN Len(key) ELSE @]
               ELSE hist
    /\ UNCHANGED workload

PairFindOp(key) ==
    /\ Find(Cur, key).err \in {OK, KEY_NOT_FOUND_ERROR, INVALID_KEY_SIZE_ERROR}
    /\ bt_Find(bt_Cur, key).err
          \in {OK, KEY_NOT_FOUND_ERROR, INVALID_KEY_SIZE_ERROR}
    /\ UNCHANGED vars

PairUpdateOp(key, newValue) ==
    /\ Touches(key)
    /\ PairBusy
    /\ hist.updates < MaxUpdates
    /\ Install(Update(Cur, key, newValue).t)
    /\ bt_Install(bt_Update(bt_Cur, key, newValue).t)
    /\ written' = IF OK \in {Update(Cur, key, newValue).err, bt_Update(bt_Cur, key, newValue).err}
                  THEN [written EXCEPT ![key] = [st |-> "live", v |-> newValue]]
                  ELSE written
    /\ hist' = IF OK \in {Update(Cur, key, newValue).err, bt_Update(bt_Cur, key, newValue).err}
               THEN [hist EXCEPT !.updates = @ + 1] ELSE hist
    /\ UNCHANGED workload

PairDeleteOp(key) ==
    /\ Touches(key)
    /\ PairBusy
    /\ hist.deletes < MaxDeletes
    /\ Install(Delete(Cur, key).t)
    /\ bt_Install(bt_Delete(bt_Cur, key).t)
    /\ written' = IF OK \in {Delete(Cur, key).err, bt_Delete(bt_Cur, key).err}
                  THEN [written EXCEPT ![key] = [st |-> "dead", v |-> Nil]]
                  ELSE written
    /\ hist' = IF OK \in {Delete(Cur, key).err, bt_Delete(bt_Cur, key).err}
               THEN [hist EXCEPT !.deletes = @ + 1] ELSE hist
    /\ UNCHANGED workload

\* the calls of the claim: keys and values that are not nil
PairDoInsert == \E key \in StorableKeys : PairInsertOp(key, ValueOf(key))
PairDoFind == \E key \in StorableKeys : PairFindOp(key)
PairDoUpdate == \E key \in StorableKeys : PairUpdateOp(key, NewValue)
PairDoDelete == \E key \in StorableKeys : PairDeleteOp(key)

PairNext == PairDoInsert \/ PairDoFind \/ PairDoUpdate \/ PairDoDelete

PairSpec == Init /\ [][PairNext]_vars

---------------------------------------------------------------------------
(* The shape of the trees, read from the root as the descent reads it.     *)

\* levels a walk from the root visits
WalkDepth == 4

\* the child offsets of an internal node image
Children(n) ==
    {At(n.Pointers, i).p :
        i \in {j \in 0..n.Numkeys : At(n.Pointers, j).t = "off"}}

Readable(t, ptr) == readNode(t, ptr).err = OK
NodeAt(t, ptr) == readNode(t, ptr).node

\* the offsets d child references below the root
RECURSIVE Level(_, _)
Level(t, d) ==
    IF d = 0 THEN (IF t.mp.isNil THEN {} ELSE {t.mp.root})
    ELSE UNION {Children(NodeAt(t, p)) :
                   p \in {q \in Level(t, d - 1) :
                             Readable(t, q) /\ ~NodeAt(t, q).IsLeaf}}

\* the offsets of the nodes reachable from the root
Nodes(t) == {p \in UNION {Level(t, d) : d \in 0..WalkDepth} : Readable(t, p)}
Leaves(t) == {p \in Nodes(t) : NodeAt(t, p).IsLeaf}
LeafDepths(t) ==
    {d \in 0..WalkDepth :
        \E p \in Level(t, d) : Readable(t, p) /\ NodeAt(t, p).IsLeaf}

\* the same walk over the in-memory tree
bt_Children(n) ==
    {At(n.Pointers, i).p :
        i \in {j \in 0..n.Numkeys : At(n.Pointers, j).t = "btnode"}}

RECURSIVE bt_Level(_, _)
bt_Level(m, d) ==
    IF d = 0 THEN (IF m.root = 0 THEN {} ELSE {m.root})
    ELSE UNION {bt_Children(m.heap[p]) :
                   p \in {q \in bt_Level(m, d - 1) : ~m.heap[q].IsLeaf}}

bt_Nodes(m) == UNION {bt_Level(m, d) : d \in 0..WalkDepth}
bt_Leaves(m) == {p \in bt_Nodes(m) : m.heap[p].IsLeaf}
bt_LeafDepths(m) ==
    {d \in 0..WalkDepth : \E p \in bt_Level(m, d) : m.heap[p].IsLeaf}

(* The leaf chain, walked as PrintLeaves walks it: from the root down the   *)
(* first pointers to the leftmost leaf and then along Next; and backwards,  *)
(* from the leaf under the last pointers along Prev.  A walk stops at a     *)
(* reference that cannot be followed and after ChainBound leaves.           *)
ChainBound == MaxPages + 2

RECURSIVE EdgeLeaf(_, _, _, _)
EdgeLeaf(t, p, last, d) ==
    IF d = 0 \/ ~Readable(t, p) THEN 0
    ELSE IF NodeAt(t, p).IsLeaf THEN p
    ELSE With(At(NodeAt(t, p).Pointers,
                 IF last THEN NodeAt(t, p).Numkeys ELSE 0), LAMBDA slot :
         IF slot.t # "off" THEN 0 ELSE EdgeLeaf(t, slot.p, last, d - 1))

LeftmostLeaf(t) == IF t.mp.isNil THEN 0 ELSE EdgeLeaf(t, t.mp.root, FALSE, WalkDepth)
RightmostLeaf(t) == IF t.mp.isNil THEN 0 ELSE EdgeLeaf(t, t.mp.root, TRUE, WalkDepth)

RECURSIVE Chain(_, _, _, _)
Chain(t, p, forward, n) ==
    IF p = 0 \/ n = 0 \/ ~Readable(t, p) THEN <<>>
    ELSE <<p>> \o Chain(t, IF forward THEN NodeAt(t, p).Next
                              ELSE NodeAt(t, p).Prev, forward, n - 1)

NextChain(t) == Chain(t, LeftmostLeaf(t), TRUE, ChainBound)
PrevChain(t) == Chain(t, RightmostLeaf(t), FALSE, ChainBound)

\* the keys in use of the leaves of a walk, one after the other
RECURSIVE ChainKeys(_, _)
ChainKeys(t, chain) ==
    IF chain = <<>> THEN <<>>
    ELSE SubSeq(NodeAt(t, Head(chain)).Keys, 1, NodeAt(t, Head(chain)).Numkeys)
         \o ChainKeys(t, Tail(chain))

RECURSIVE bt_EdgeLeaf(_, _, _, _)
bt_EdgeLeaf(m, p, last, d) ==
    IF d = 0 \/ p \notin DOMAIN m.heap THEN 0
    ELSE IF m.heap[p].IsLeaf THEN p
    ELSE With(At(m.heap[p].Pointers,
                 IF last THEN m.heap[p].Numkeys ELSE 0), LAMBDA slot :
         IF slot.t # "btnode" THEN 0 ELSE bt_EdgeLeaf(m, slot.p, last, d - 1))

bt_LeftmostLeaf(m) == bt_EdgeLeaf(m, m.root, FALSE, WalkDepth)
bt_RightmostLeaf(m) == bt_EdgeLeaf(m, m.root, TRUE, WalkDepth)

RECURSIVE bt_Chain(_, _, _, _)
bt_Chain(m, p, forward, n) ==
    IF p = 0 \/ n = 0 \/ p \notin DOMAIN m.heap THEN <<>>
    ELSE <<p>> \o bt_Chain(m, IF forward THEN m.heap[p].Next
                                ELSE m.heap[p].Prev, forward, n - 1)

bt_NextChain(m) == bt_Chain(m, bt_LeftmostLeaf(m), TRUE, ChainBound)
bt_PrevChain(m) == bt_Chain(m, bt_RightmostLeaf(m), FALSE, ChainBound)

RECURSIVE bt_ChainKeys(_, _)
bt_ChainKeys(m, chain) ==
    IF chain = <<>> THEN <<>>
    ELSE SubSeq(m.heap[Head(chain)].Keys, 1, m.heap[Head(chain)].Numkeys)
         \o bt_ChainKeys(m, Tail(chain))

\* the keys stored in the leaves below (and including) a node
RECURSIVE SubtreeKeys(_, _, _)
SubtreeKeys(t, p, d) ==
    IF d = 0 \/ ~Readable(t, p) THEN {}
    ELSE IF NodeAt(t, p).IsLeaf
    THEN {At(NodeAt(t, p).Keys, i) : i \in 0..(NodeAt(t, p).Numkeys - 1)}
    ELSE UNION {SubtreeKeys(t, c, d - 1) : c \in Children(NodeAt(t, p))}

RECURSIVE bt_SubtreeKeys(_, _, _)
bt_SubtreeKeys(m, p, d) ==
    IF d = 0 \/ p \notin DOMAIN m.heap THEN {}
    ELSE IF m.heap[p].IsLeaf
    THEN {At(m.heap[p].Keys, i) : i \in 0..(m.heap[p].Numkeys - 1)}
    ELSE UNION {bt_SubtreeKeys(m, c, d - 1) : c \in bt_Children(m.heap[p])}

Smallest(k, ks) == k \in ks /\ \A x \in ks : Compare(k, x) <= 0

\* an offset that is none or the start of one of the pageCount node pages
NoneOrPage(t, ptr) ==
    ptr = 0 \/ (IsPageOffset(ptr) /\ PageIndex(ptr) < t.mp.pageCount)

\* the offsets a node stores: its parent, its neighbours and, for an
\* internal node, the children in use
Refs(n) ==
    {n.Parent, n.Next, n.Prev}
        \cup (IF n.IsLeaf THEN {}
              ELSE {At(n.Pointers, i).p : i \in 0..n.Numkeys})

(* The nodes the tree hands to ToBytes in a state: the leaf Insert writes   *)
(* when the leaf has room, and the leaf Update writes.                      *)
LeafOfInsert(t, key, value) ==
    IF key = Nil \/ value = Nil \/ GoLen(key) > MaxUint16 \/ t.mp.isNil
       \/ GoLen(key) # t.ks
    THEN {}
    ELSE With(findLeaf(t, key), LAMBDA r :
         IF r.err # OK \/ getKeyIndex(r.node, key) > -1
            \/ r.node.Numkeys >= m_ORDER - 1
         THEN {}
         ELSE {insertIntoNode(r.node, key, PVal(value))})

LeafOfUpdate(t, key, newValue) ==
    IF t.mp.isNil \/ key = Nil \/ GoLen(key) # t.ks THEN {}
    ELSE With(findLeaf(t, key), LAMBDA r :
         IF r.err # OK \/ getKeyIndex(r.node, key) < 0 THEN {}
         ELSE {[r.node EXCEPT
                  !.Pointers = Put(r.node.Pointers, getKeyIndex(r.node, key),
                                   PVal(newValue))]})

\* equal in the header fields, the keys in use and the pointer slots in use;
\* a nil slice and an empty one are the same bytes
SameInUse(a, b) ==
    /\ a.Ptr = b.Ptr /\ a.IsLeaf = b.IsLeaf /\ a.Numkeys = b.Numkeys
    /\ a.Parent = b.Parent /\ a.Next = b.Next /\ a.Prev = b.Prev
    /\ a.Keysize = b.Keysize
    /\ \A i \in 1..a.Numkeys : Bytes(a.Keys[i]) = Bytes(b.Keys[i])
    /\ \A i \in 1..(a.Numkeys + (IF a.IsLeaf THEN 0 ELSE 1)) :
           /\ Bytes(a.Pointers[i].b) = Bytes(b.Pointers[i].b)
           /\ a.Pointers[i].p = b.Pointers[i].p

RoundTrips(n) == SameInUse(BytesToNode(ToBytes(n), n.Ptr), n)

Range(s) == {s[i] : i \in DOMAIN s}
NoRepeat(s) == Cardinality(Range(s)) = Len(s)
Ascending(ks) == \A i \in 1..(Len(ks) - 1) : Compare(ks[i], ks[i + 1]) < 0
Reverse(s) == [i \in 1..Len(s) |-> s[Len(s) + 1 - i]]

\* every child reference of an internal node leads to a node
NoDeadEnd(t, n) ==
    n.IsLeaf \/ \A i \in 0..n.Numkeys :
                   /\ At(n.Pointers, i).t = "off"
                   /\ Readable(t, At(n.Pointers, i).p)
bt_NoDeadEnd(m, n) ==
    n.IsLeaf \/ \A i \in 0..n.Numkeys :
                   /\ At(n.Pointers, i).t = "btnode"
                   /\ At(n.Pointers, i).p \in DOMAIN m.heap

\* One run exercises one of the two trees.
DiskUntouched == dbFile = EmptyFile /\ masterPage.isNil /\ ~hist.reopened
MemUntouched == bt_heap = <<>> /\ bt_root = 0
BothNext == (MemUntouched /\ Next) \/ (DiskUntouched /\ MemNext)
BothSpec == Init /\ [][BothNext]_vars

---------------------------------------------------------------------------
(* The example program of the Readme: COUNT keys "00", "01", ... inserted  *)
(* in ascending order into a new in-memory tree, key i with the value "v"  *)
(* followed by the decimal digits of i; then the tree is printed level by  *)
(* level.  Update and Find may be called between the Inserts.              *)
COUNT == 16

\* fmt.Sprint(i) and fmt.Sprintf("%02d", i), for i below 100
Sprint(i) == IF i < 10 THEN <<48 + i>> ELSE <<48 + (i \div 10), 48 + (i % 10)>>
Sprintf02d(i) == <<48 + (i \div 10), 48 + (i % 10)>>

\* the children of an internal node, left to right
bt_ChildSeq(n) == [i \in 1..(n.Numkeys + 1) |-> n.Pointers[i].p]

RECURSIVE bt_Below(_, _)
bt_Below(m, level) ==
    IF level = <<>> THEN <<>>
    ELSE (IF m.heap[Head(level)].IsLeaf THEN <<>>
          ELSE bt_ChildSeq(m.heap[Head(level)]))
         \o bt_Below(m, Tail(level))

\* Print: one line per level, the keys in use of each node of the level
RECURSIVE bt_PrintFrom(_, _, _)
bt_PrintFrom(m, level, d) ==
    IF level = <<>> \/ d = 0 THEN <<>>
    ELSE <<[i \in DOMAIN level |->
              SubSeq(m.heap[level[i]].Keys, 1, m.heap[level[i]].Numkeys)]>>
         \o bt_PrintFrom(m, bt_Below(m, level), d - 1)

bt_Print(m) == IF m.root = 0 THEN <<>> ELSE bt_PrintFrom(m, <<m.root>>, WalkDepth)

\* the loop index: the number of keys the tree holds
ReadmeIndex == Cardinality(bt_SubtreeKeys(bt_Cur, bt_root, WalkDepth))

ReadmeInsert ==
    /\ workload = "ascending"
    /\ ReadmeIndex < COUNT
    /\ bt_Insert(bt_Cur, Sprintf02d(ReadmeIndex), <<118>> \o Sprint(ReadmeIndex)).err = OK
    /\ bt_Install(bt_Insert(bt_Cur, Sprintf02d(ReadmeIndex),
                            <<118>> \o Sprint(ReadmeIndex)).t)
    /\ UNCHANGED <<workload, written, hist, dbFile, masterPage, keySize>>

ReadmeUpdate ==
    \E i \in 0..(COUNT - 1) :
        /\ workload = "ascending"
        /\ hist.updates < MaxUpdates
        /\ bt_Update(bt_Cur, Sprintf02d(i), NewValue).err = OK
        /\ bt_Install(bt_Update(bt_Cur, Sprintf02d(i), NewValue).t)
        /\ hist' = [hist EXCEPT !.updates = @ + 1]
        /\ UNCHANGED <<workload, written, dbFile, masterPage, keySize>>

ReadmeFind ==
    \E i \in 0..(COUNT - 1) :
        /\ bt_Find(bt_Cur, Sprintf02d(i)).err \in {OK, KEY_NOT_FOUND_ERROR}
        /\ UNCHANGED vars

ReadmeNext == ReadmeInsert \/ ReadmeUpdate \/ ReadmeFind

ReadmeSpec == Init /\ [][ReadmeNext]_vars

---------------------------------------------------------------------------
(* Properties of the disk tree.                                            *)

\* Find returns the value the history holds for the key
Found(k) == Find(Cur, k) = [err |-> OK, val |-> written[k].v]
NotFound(k) == Find(Cur, k).err = KEY_NOT_FOUND_ERROR

\* the run so far is made of Insert and Delete calls alone
OnlyInsertsAndDeletes == ~hist.reopened /\ hist.updates = 0

\* C1: after Inserts, each key inserted at most once, and Deletes, Find
\* returns the inserted value for every key inserted and not deleted and
\* KEY_NOT_FOUND for every deleted key.
C1_FindAfterInsertsAndDeletes ==
    (OnlyInsertsAndDeletes /\ ~hist.reinserted) =>
        \A k \in StorableKeys :
            /\ written[k].st = "live" => Found(k)
            /\ written[k].st = "dead" => NotFound(k)

\* C2: after successful Inserts of distinct keys of one length, in any
\* order and with no Delete, Find returns the value inserted with each
\* inserted key and KEY_NOT_FOUND for each key of that length never
\* inserted.
C2_FindAfterInserts ==
    (OnlyInsertsAndDeletes /\ hist.deletes = 0) =>
        \A k \in StorableKeys :
            /\ written[k].st = "live" => Found(k)
            /\ (written[k].st = "never" /\ Len(k) = keySize) => NotFound(k)

C2_Witness ==
    /\ OnlyInsertsAndDeletes /\ hist.deletes = 0
    /\ Cardinality(Live) = DeepKeys
    /\ masterPage.pageCount = MaxPages
    /\ \A k \in Live : Found(k)

\* C4: after distinct keys are inserted and every one of them deleted, in
\* any order, the tree is empty: Find of each of them returns
\* KEY_NOT_FOUND.
C4_EmptyAfterDeletingAll ==
    (OnlyInsertsAndDeletes /\ ~hist.reinserted /\ Inserted # {} /\ Live = {}) =>
        \A k \in Inserted : NotFound(k)

\* C5: after Inserts and Deletes in any order, Delete of a key inserted
\* and not yet deleted returns no error.
C5_DeleteOfLiveKeySucceeds ==
    OnlyInsertsAndDeletes => \A k \in Live : Delete(Cur, k).err = OK

C5_Witness ==
    /\ OnlyInsertsAndDeletes
    /\ hist.deletes = MaxDeletes
    /\ Cardinality(Live) >= 2
    /\ masterPage.pageCount >= 3
    /\ \A k \in Live : Delete(Cur, k).err = OK

\* C6: after the tree is closed and a new tree constructed over the same
\* file, Find returns the stored value for every key live before the
\* close.
C6_FindAfterReopen ==
    hist.reopened => \A k \in Live : Found(k)

\* C7: Insert of a stored key returns KEY_ALREADY_EXISTS, leaves the file
\* and the cached master page unchanged, and a following Find of the key
\* returns the value stored before.
C7_DuplicateInsertRejected ==
    \A k \in Live : \A v \in Values :
        /\ Insert(Cur, k, v).err = KEY_ALREADY_EXISTS_ERROR
        /\ Insert(Cur, k, v).t.f = dbFile
        /\ Insert(Cur, k, v).t.mp = masterPage
        /\ Find(Insert(Cur, k, v).t, k) = [err |-> OK, val |-> written[k].v]

\* C8: once an Insert with a key of length L is accepted, a later Insert
\* with a key of another length returns INVALID_KEY_SIZE, leaves keySize
\* at L and the file unchanged, and every key inserted before is still
\* found.
C8_KeySizeFixedByFirstInsert ==
    hist.len # -1 =>
        \A k \in StorableKeys : \A v \in Values :
            Len(k) # hist.len =>
                /\ Insert(Cur, k, v).err = INVALID_KEY_SIZE_ERROR
                /\ Insert(Cur, k, v).t.ks = hist.len
                /\ Insert(Cur, k, v).t.f = dbFile
                /\ \A j \in Live :
                       Find(Insert(Cur, k, v).t, j)
                           = [err |-> OK, val |-> written[j].v]

\* C9: on a non-empty tree with key length L, Find, Update and Delete with
\* a key of another length each return INVALID_KEY_SIZE.
C9_WrongSizeRejected ==
    Live # {} =>
        \A k \in StorableKeys :
            Len(k) # hist.len =>
                /\ Find(Cur, k).err = INVALID_KEY_SIZE_ERROR
                /\ Update(Cur, k, NewValue).err = INVALID_KEY_SIZE_ERROR
                /\ Delete(Cur, k).err = INVALID_KEY_SIZE_ERROR

\* C10: Find, Update and Delete of a key of the established length that is
\* not stored, and of any key on a tree that never held a key, return
\* KEY_NOT_FOUND and change neither the file nor the cached master page,
\* which stays absent on a tree that never held a key.
C10_NotFoundChangesNothing ==
    \A k \in ProbeKeys :
        (hist.len = -1 \/ (GoLen(k) = hist.len /\ written[Bytes(k)].st # "live")) =>
            /\ Find(Cur, k).err = KEY_NOT_FOUND_ERROR
            /\ Update(Cur, k, NewValue) = Ret(KEY_NOT_FOUND_ERROR, Cur)
            /\ Delete(Cur, k) = Ret(KEY_NOT_FOUND_ERROR, Cur)
            /\ (hist.len = -1 => masterPage.isNil)

\* the keys Find finds in tree t
StoredKeys(t) == {k \in StorableKeys : Find(t, k).err = OK}

\* tree u holds the keys of tree t, each but key with the value it has in t,
\* under the same root offset and page count
SameButValueOf(t, u, key) ==
    /\ StoredKeys(u) = StoredKeys(t)
    /\ \A j \in StoredKeys(t) \ {key} : Find(u, j) = Find(t, j)
    /\ u.mp = t.mp
    /\ u.f.master = t.f.master

\* C11: a successful Update(k, v') makes Find(k) return v' and changes
\* neither the value found for any other stored key, nor the set of stored
\* keys, nor the root offset, nor pageCount, however many leaves hold the
\* keys.
C11_UpdateChangesOneValue ==
    \A k \in ProbeKeys : \A v \in {NewValue, Nil} :
        Update(Cur, k, v).err = OK =>
            /\ Find(Update(Cur, k, v).t, k) = [err |-> OK, val |-> Bytes(v)]
            /\ SameButValueOf(Cur, Update(Cur, k, v).t, k)

C11_Witness ==
    /\ hist.updates > 0
    /\ masterPage.pageCount >= 5
    /\ \E k \in Live :
           /\ written[k].v = NewValue
           /\ Find(Cur, k) = [err |-> OK, val |-> NewValue]
           /\ \A j \in Live \ {k} :
                  Find(Cur, j) = [err |-> OK, val |-> ValueOf(j)]
    /\ \E k \in Live : Update(Cur, k, NewValue).err = OK

\* C12: Insert(k, v) followed by Update(k, v) leaves the file and the
\* cached master page as they were right after the Insert.
C12_UpdateWithSameValue ==
    \A k \in InsertKeys : \A v \in {ValueOf(Bytes(k)), NewValue} :
        Insert(Cur, k, v).err = OK =>
            /\ Update(Insert(Cur, k, v).t, k, v).t.f = Insert(Cur, k, v).t.f
            /\ Update(Insert(Cur, k, v).t, k, v).t.mp = Insert(Cur, k, v).t.mp

\* C13: Insert with a key that is nil or of length zero is rejected with
\* INVALID_KEY, Insert with a value that is nil or of length zero is
\* rejected, and in both cases nothing is written.
C13_EmptyKeyOrValueRejected ==
    \A k \in InsertKeys : \A v \in {ValueOf(Bytes(k)), Nil, <<>>} :
        (GoLen(k) = 0 \/ GoLen(v) = 0) =>
            /\ Insert(Cur, k, v).err # OK
            /\ Insert(Cur, k, v).t = Cur
            /\ GoLen(k) = 0 => Insert(Cur, k, v).err = INVALID_KEY_ERROR

\* C19: while the tree on disk is not empty the file is as long as the
\* master page and pageCount node pages, and the root offset and every offset
\* stored in a reachable node is 0 or the start of one of those pages.
C19_FileSizeAndOffsets ==
    ~masterPage.isNil =>
        /\ FileSize(dbFile) = m_MASTER_PAGE_SIZE + masterPage.pageCount * m_PAGE_SIZE
        /\ NoneOrPage(Cur, masterPage.root)
        /\ \A p \in Nodes(Cur) : \A o \in Refs(NodeAt(Cur, p)) : NoneOrPage(Cur, o)

\* a tree of five pages or more, all of them reachable, after a Delete and
\* after the file was reopened
C19_Witness ==
    /\ ~masterPage.isNil
    /\ masterPage.pageCount >= 5
    /\ Cardinality(Nodes(Cur)) = masterPage.pageCount
    /\ hist.reopened /\ hist.deletes > 0

\* C20: a node of the tree on disk, encoded with ToBytes and decoded with
\* BytesToNode at its own offset, is the same node in its header fields, its
\* keys in use and its pointer slots in use: the nodes stored in the file and
\* the leaves Insert and Update encode.
C20_RoundTrip ==
    /\ \A p \in Nodes(Cur) : RoundTrips(NodeAt(Cur, p))
    /\ \A k \in InsertKeys : \A v \in {ValueOf(Bytes(k)), <<>>} :
           \A n \in LeafOfInsert(Cur, k, v) : RoundTrips(n)
    /\ \A k \in ProbeKeys : \A v \in {NewValue, Nil} :
           \A n \in LeafOfUpdate(Cur, k, v) : RoundTrips(n)

\* the part of C20 that concerns a tree that was not reopened
C20_RoundTripSameObject ==
    ~hist.reopened => C20_RoundTrip

\* the bytes ToBytes writes before the first key: the leaf flag, Numkeys,
\* Parent, Next, Prev and Keysize
HeaderSize == 29

\* the bytes of the first i values of a leaf, each behind its two bytes
\* of length
RECURSIVE ValueBytes(_, _)
ValueBytes(n, i) ==
    IF i = 0 THEN 0
    ELSE 2 + Len(Bytes(n.Pointers[i].b)) + ValueBytes(n, i - 1)

\* the number of bytes of its page that ToBytes fills for a node (the
\* index it ends at; an index past m_PAGE_SIZE panics)
EncodedSize(n) ==
    HeaderSize + n.Numkeys * n.Keysize
        + (IF n.IsLeaf THEN ValueBytes(n, n.Numkeys) ELSE 8 * (n.Numkeys + 1))

\* a value that fills a page of three two-byte keys to less than
\* m_PAGE_SIZE bytes
LargeValue == [i \in 1..(m_PAGE_DATA_SIZE - 24) |-> 0]

\* every page of the file holds a node that ends within the usable
\* payload, with values no longer than a uint16 counts
PagesFit(t) ==
    \A p \in Nodes(t) :
        /\ EncodedSize(NodeAt(t, p)) <= m_PAGE_DATA_SIZE
        /\ NodeAt(t, p).IsLeaf
           => \A i \in 1..NodeAt(t, p).Numkeys :
                  Len(Bytes(NodeAt(t, p).Pointers[i].b)) <= MaxUint16

\* C30: on disk every node written to the file fits the usable payload of
\* its page, m_PAGE_SIZE - m_GCM_IV_SIZE - m_GCM_AUTH_SIZE bytes, and every
\* value's length fits a uint16: so it is in the file as it stands, and
\* after an Insert or an Update of a large value that returns no error.
C30_PageFitsPayload ==
    /\ PagesFit(Cur)
    /\ \A k \in StorableKeys :
        /\ Insert(Cur, k, LargeValue).err = OK
           => PagesFit(Insert(Cur, k, LargeValue).t)
        /\ Update(Cur, k, LargeValue).err = OK
           => PagesFit(Update(Cur, k, LargeValue).t)

\* the pages the workload's own small values are written to do fit
C30_SmallPagesFit == PagesFit(Cur)

\* a large value is never written past the end of its page
C30_LargeValueWithinPage ==
    \A k \in StorableKeys :
        /\ \A n \in LeafOfInsert(Cur, k, LargeValue) :
               EncodedSize(n) <= m_PAGE_SIZE
        /\ \A n \in LeafOfUpdate(Cur, k, LargeValue) :
               EncodedSize(n) <= m_PAGE_SIZE

\* the root is a leaf and key is the only key it holds
LastKey(t, key) ==
    /\ ~t.mp.isNil
    /\ Readable(t, t.mp.root)
    /\ NodeAt(t, t.mp.root).IsLeaf
    /\ NodeAt(t, t.mp.root).Numkeys = 1
    /\ key # Nil
    /\ Compare(At(NodeAt(t, t.mp.root).Keys, 0), key) = 0

\* C23: a Delete that removes the last key of a leaf root leaves a file of
\* length zero and no cached master page, and an Insert made next creates
\* the master page and a root leaf in which its key is found.
C23_LastKeyDeleted ==
    \A k \in StorableKeys :
        (LastKey(Cur, k) /\ Delete(Cur, k).err = OK) =>
            /\ FileSize(Delete(Cur, k).t.f) = 0
            /\ Delete(Cur, k).t.mp.isNil
            /\ \A j \in StorableKeys :
                   /\ Insert(Delete(Cur, k).t, j, ValueOf(j)).err = OK
                   /\ Insert(Delete(Cur, k).t, j, ValueOf(j)).t.mp.pageCount = 1
                   /\ Find(Insert(Delete(Cur, k).t, j, ValueOf(j)).t, j)
                          = [err |-> OK, val |-> ValueOf(j)]

\* the keys under the pointer left of keys[i] are smaller than it, the
\* keys under the pointer right of it are not
Separates(t, n, i) ==
    /\ \A x \in SubtreeKeys(t, At(n.Pointers, i).p, WalkDepth) :
           Compare(x, At(n.Keys, i)) < 0
    /\ \A x \in SubtreeKeys(t, At(n.Pointers, i + 1).p, WalkDepth) :
           Compare(x, At(n.Keys, i)) >= 0

\* C24: after Inserts and Deletes every key of an internal node on disk
\* separates the keys in the leaves under the pointers at its sides, and
\* the descent for a key stored in a reachable leaf ends in that leaf.
C24_SearchOrder ==
    OnlyInsertsAndDeletes =>
        /\ \A p \in Nodes(Cur) \ Leaves(Cur) :
               \A i \in 0..(NodeAt(Cur, p).Numkeys - 1) :
                   Separates(Cur, NodeAt(Cur, p), i)
        /\ \A p \in Leaves(Cur) :
               \A x \in SubtreeKeys(Cur, p, 1) :
                   findLeaf(Cur, x).node.Ptr = p

\* the part of C24 that concerns a tree built by Inserts alone
C24_SearchOrderAfterInserts ==
    hist.deletes = 0 => C24_SearchOrder

---------------------------------------------------------------------------
(* Properties of both trees.                                               *)

\* C14: in both trees, after any Inserts, Updates and Deletes, all leaves
\* reachable from the root are at the same depth.
C14_LeavesAtOneDepth ==
    /\ Cardinality(LeafDepths(Cur)) <= 1
    /\ Cardinality(bt_LeafDepths(bt_Cur)) <= 1
    /\ Level(Cur, WalkDepth) = {} /\ bt_Level(bt_Cur, WalkDepth) = {}
    /\ \A p \in Nodes(Cur) : NoDeadEnd(Cur, NodeAt(Cur, p))
    /\ \A p \in bt_Nodes(bt_Cur) : bt_NoDeadEnd(bt_Cur, bt_heap[p])

\* a tree of three levels, and a tree that lost a level to a merge
C14_Witness ==
    \/ LeafDepths(Cur) = {2} /\ hist.updates > 0 /\ hist.deletes > 0
    \/ /\ bt_LeafDepths(bt_Cur) = {1}
       /\ \E p \in DOMAIN bt_heap :
              p \notin bt_Nodes(bt_Cur) /\ bt_LeafDepths(bt_Tree(p, bt_heap, 2)) = {2}

\* C15: in both trees, whenever the tree is not empty, every node reachable
\* from the root other than the root holds at least ORDER_HALF - 1 keys.
C15_Occupancy ==
    /\ \A p \in Nodes(Cur) \ {masterPage.root} :
           NodeAt(Cur, p).Numkeys >= m_ORDER_HALF - 1
    /\ \A p \in bt_Nodes(bt_Cur) \ {bt_root} :
           bt_heap[p].Numkeys >= ORDER_HALF - 1

\* a merge left a node behind and the nodes that remain below the root are
\* at the minimum
C15_Witness ==
    /\ hist.deletes > 0
    /\ \E p \in DOMAIN bt_heap : p \notin bt_Nodes(bt_Cur)
    /\ Cardinality(bt_Nodes(bt_Cur)) >= 3
    /\ \E p \in bt_Nodes(bt_Cur) \ {bt_root} : bt_heap[p].Numkeys = ORDER_HALF - 1

\* C16: in both trees the walk along next from the leftmost leaf visits
\* every leaf reachable from the root exactly once, and the keys it meets,
\* one leaf after the other, are strictly ascending.
C16_NextChain ==
    /\ NoRepeat(NextChain(Cur))
    /\ Range(NextChain(Cur)) = Leaves(Cur)
    /\ Ascending(ChainKeys(Cur, NextChain(Cur)))
    /\ NoRepeat(bt_NextChain(bt_Cur))
    /\ Range(bt_NextChain(bt_Cur)) = bt_Leaves(bt_Cur)
    /\ Ascending(bt_ChainKeys(bt_Cur, bt_NextChain(bt_Cur)))

\* C17: in both trees the walk along prev from the rightmost leaf is the
\* walk along next from the leftmost leaf read backwards, the keys it meets
\* (each leaf read from its last key to its first) are strictly descending,
\* and the successor of a reachable leaf refers back to it.
C17_PrevChain ==
    /\ PrevChain(Cur) = Reverse(NextChain(Cur))
    /\ Ascending(ChainKeys(Cur, Reverse(PrevChain(Cur))))
    /\ \A p \in Leaves(Cur) :
           NodeAt(Cur, p).Next # 0 =>
               /\ Readable(Cur, NodeAt(Cur, p).Next)
               /\ NodeAt(Cur, NodeAt(Cur, p).Next).Prev = p
    /\ bt_PrevChain(bt_Cur) = Reverse(bt_NextChain(bt_Cur))
    /\ Ascending(bt_ChainKeys(bt_Cur, Reverse(bt_PrevChain(bt_Cur))))
    /\ \A p \in bt_Leaves(bt_Cur) :
           bt_heap[p].Next # 0 => bt_heap[bt_heap[p].Next].Prev = p

\* the part of C17 that concerns a tree on disk that was not reopened
C17_DiskPrevChain ==
    ~hist.reopened =>
        /\ PrevChain(Cur) = Reverse(NextChain(Cur))
        /\ \A p \in Leaves(Cur) :
               NodeAt(Cur, p).Next # 0 =>
                   NodeAt(Cur, NodeAt(Cur, p).Next).Prev = p

\* C18: in both trees every key in use of a reachable internal node is the
\* smallest key stored in the subtree under the pointer to its right.
C18_Separators ==
    /\ \A p \in Nodes(Cur) \ Leaves(Cur) :
           \A i \in 0..(NodeAt(Cur, p).Numkeys - 1) :
               Smallest(At(NodeAt(Cur, p).Keys, i),
                        SubtreeKeys(Cur, At(NodeAt(Cur, p).Pointers, i + 1).p,
                                    WalkDepth))
    /\ \A p \in bt_Nodes(bt_Cur) \ bt_Leaves(bt_Cur) :
           \A i \in 0..(bt_heap[p].Numkeys - 1) :
               Smallest(At(bt_heap[p].Keys, i),
                        bt_SubtreeKeys(bt_Cur, At(bt_heap[p].Pointers, i + 1).p,
                                       WalkDepth))

\* the part of C18 that concerns a tree on disk that was not reopened
C18_DiskSeparators ==
    ~hist.reopened =>
        \A p \in Nodes(Cur) \ Leaves(Cur) :
           \A i \in 0..(NodeAt(Cur, p).Numkeys - 1) :
               Smallest(At(NodeAt(Cur, p).Keys, i),
                        SubtreeKeys(Cur, At(NodeAt(Cur, p).Pointers, i + 1).p,
                                    WalkDepth))

\* key is the first of several keys of a leaf below the root, and the
\* leaf's parent holds it at index j
FirstKeyInParent(leaf, parent, key, j) ==
    /\ leaf.IsLeaf /\ leaf.Parent # 0 /\ leaf.Numkeys > 1
    /\ At(leaf.Keys, 0) = key
    /\ j < parent.Numkeys /\ At(parent.Keys, j) = key

\* C25: in both trees a Delete of the first key of a leaf below the root
\* that keeps a key puts the leaf's new first key in the place of the
\* removed key in the parent, at whichever index the parent holds it.
C25_ParentKeyReplaced ==
    \A k \in Keys : \A j \in 0..(ORDER - 2) :
        /\ (/\ bt_findLeaf(bt_Cur, k).err = OK
            /\ FirstKeyInParent(bt_heap[bt_findLeaf(bt_Cur, k).p],
                                bt_heap[bt_heap[bt_findLeaf(bt_Cur, k).p].Parent],
                                k, j))
           => /\ bt_Delete(bt_Cur, k).err = OK
              /\ At(bt_Delete(bt_Cur, k).t.heap[
                        bt_heap[bt_findLeaf(bt_Cur, k).p].Parent].Keys, j)
                    = At(bt_heap[bt_findLeaf(bt_Cur, k).p].Keys, 1)
        /\ (/\ findLeaf(Cur, k).err = OK
            /\ Readable(Cur, findLeaf(Cur, k).node.Parent)
            /\ FirstKeyInParent(findLeaf(Cur, k).node,
                                NodeAt(Cur, findLeaf(Cur, k).node.Parent), k, j))
           => /\ Delete(Cur, k).err = OK
              /\ At(NodeAt(Delete(Cur, k).t, findLeaf(Cur, k).node.Parent).Keys, j)
                    = At(findLeaf(Cur, k).node.Keys, 1)

\* the part of C25 that concerns the tree on disk
C25_DiskParentKeyReplaced ==
    \A k \in Keys : \A j \in 0..(m_ORDER - 2) :
        (/\ findLeaf(Cur, k).err = OK
         /\ Readable(Cur, findLeaf(Cur, k).node.Parent)
         /\ FirstKeyInParent(findLeaf(Cur, k).node,
                             NodeAt(Cur, findLeaf(Cur, k).node.Parent), k, j))
        => /\ Delete(Cur, k).err = OK
           /\ At(NodeAt(Delete(Cur, k).t, findLeaf(Cur, k).node.Parent).Keys, j)
                 = At(findLeaf(Cur, k).node.Keys, 1)

\* the part of C25 that concerns a key held past the parent's first key
C25_MemParentKeyReplacedPastFirst ==
    \A k \in Keys : \A j \in 1..(ORDER - 2) :
        (/\ bt_findLeaf(bt_Cur, k).err = OK
         /\ FirstKeyInParent(bt_heap[bt_findLeaf(bt_Cur, k).p],
                             bt_heap[bt_heap[bt_findLeaf(bt_Cur, k).p].Parent],
                             k, j))
        => /\ bt_Delete(bt_Cur, k).err = OK
           /\ At(bt_Delete(bt_Cur, k).t.heap[
                     bt_heap[bt_findLeaf(bt_Cur, k).p].Parent].Keys, j)
                 = At(bt_heap[bt_findLeaf(bt_Cur, k).p].Keys, 1)

\* the place of the node at p among its parent's children
bt_Place(m, p) ==
    CHOOSE i \in 0..(ORDER - 1) :
        At(m.heap[m.heap[p].Parent].Pointers, i) = PTreeNode(p)

\* the repair of the node at p that has too few keys, chosen by its place:
\* the sibling before it, or the one after the first child; the parent's
\* key between the two; a borrow from a sibling that can spare a key, else
\* a merge
bt_Repair(m, p) ==
    With(m.heap[m.heap[p].Parent], LAMBDA parent :
    With(bt_Place(m, p), LAMBDA i :
    With(At(parent.Pointers, IF i > 0 THEN i - 1 ELSE 1).p, LAMBDA s :
    With(IF i > 0 THEN i - 1 ELSE 0, LAMBDA between :
    IF m.heap[s].Numkeys > ORDER_HALF - 1
    THEN bt_borrowFromSibling(m, p, s, i > 0, At(parent.Keys, between), between)
    ELSE bt_mergeNodes(m, p, s, i > 0, At(parent.Keys, between))))))

\* key is the only key of a leaf below the root
bt_OnlyKey(m, key) ==
    /\ bt_findLeaf(m, key).err = OK
    /\ bt_findLeaf(m, key).p # m.root
    /\ m.heap[bt_findLeaf(m, key).p].Numkeys = 1
    /\ bt_getKeyIndex(m.heap[bt_findLeaf(m, key).p], key) = 0

\* the place of a node of the file among its parent's children
Place(t, node) ==
    CHOOSE i \in 0..(m_ORDER - 1) :
        At(NodeAt(t, node.Parent).Pointers, i) = POff(node.Ptr)

Repair(t, node) ==
    With(NodeAt(t, node.Parent), LAMBDA parent :
    With(Place(t, node), LAMBDA i :
    With(NodeAt(t, At(parent.Pointers, IF i > 0 THEN i - 1 ELSE 1).p),
         LAMBDA sibling :
    With(IF i > 0 THEN i - 1 ELSE 0, LAMBDA between :
    IF sibling.Numkeys > m_ORDER_HALF - 1
    THEN borrowFromSibling(t, node, sibling, i > 0,
                           At(parent.Keys, between), between)
    ELSE mergeNodes(t, node, sibling, i > 0, At(parent.Keys, between))))))

\* key is the only key of the image of a leaf below the root
OnlyKey(t, key) ==
    /\ ~t.mp.isNil
    /\ findLeaf(t, key).err = OK
    /\ findLeaf(t, key).node.Ptr # t.mp.root
    /\ findLeaf(t, key).node.Numkeys = 1
    /\ getKeyIndex(findLeaf(t, key).node, key) = 0

\* an internal node of the file below the root with a single key, listed
\* by its parent
OnlyKeyInside(t, node) ==
    /\ ~node.IsLeaf /\ node.Ptr # t.mp.root /\ node.Numkeys = 1
    /\ Readable(t, node.Parent)
    /\ \E i \in 0..(m_ORDER - 1) :
           At(NodeAt(t, node.Parent).Pointers, i) = POff(node.Ptr)

\* C26: in both trees, when a Delete takes the only key of a leaf below the
\* root, the leaf is repaired with the sibling before it (the sibling after
\* it for a first child) and the parent's key between the two: the leaf
\* borrows when that sibling has more than ORDER_HALF - 1 keys, and the two
\* are merged otherwise.  The same holds on disk for an internal node that
\* loses its only key together with the child to the right of it.
C26_RepairBySibling ==
    \A k \in StorableKeys :
        /\ bt_OnlyKey(bt_Cur, k) =>
             bt_Delete(bt_Cur, k) =
                 bt_Repair(bt_removeFromNode(bt_Cur, bt_findLeaf(bt_Cur, k).p, k,
                               At(bt_heap[bt_findLeaf(bt_Cur, k).p].Pointers, 0)).t,
                           bt_findLeaf(bt_Cur, k).p)
        /\ OnlyKey(Cur, k) =>
             Delete(Cur, k) =
                 With(removeFromNode(Cur, findLeaf(Cur, k).node, k,
                                     At(findLeaf(Cur, k).node.Pointers, 0)),
                      LAMBDA rm : Repair(rm.t, rm.node))
    /\ \A p \in Nodes(Cur) :
           OnlyKeyInside(Cur, NodeAt(Cur, p))
           => deleteEntry(Cur, NodeAt(Cur, p), At(NodeAt(Cur, p).Keys, 0),
                          At(NodeAt(Cur, p).Pointers, 1))
                 = With(removeFromNode(Cur, NodeAt(Cur, p),
                                       At(NodeAt(Cur, p).Keys, 0),
                                       At(NodeAt(Cur, p).Pointers, 1)),
                        LAMBDA rm : Repair(rm.t, rm.node))

\* a tree in which one Delete borrows from the sibling before the leaf,
\* another merges with the sibling before the leaf and a third repairs a
\* first child with the sibling after it
C26_Witness ==
    /\ \E k \in StorableKeys :
        /\ bt_OnlyKey(bt_Cur, k)
        /\ bt_Place(bt_Cur, bt_findLeaf(bt_Cur, k).p) > 0
        /\ Cardinality(bt_Leaves(bt_Delete(bt_Cur, k).t))
              = Cardinality(bt_Leaves(bt_Cur))
        /\ bt_Delete(bt_Cur, k).err = OK
    /\ \E k \in StorableKeys :
        /\ bt_OnlyKey(bt_Cur, k)
        /\ bt_Place(bt_Cur, bt_findLeaf(bt_Cur, k).p) > 0
        /\ Cardinality(bt_Leaves(bt_Delete(bt_Cur, k).t))
              < Cardinality(bt_Leaves(bt_Cur))
        /\ bt_Delete(bt_Cur, k).err = OK
    /\ \E k \in StorableKeys :
        /\ bt_OnlyKey(bt_Cur, k)
        /\ bt_Place(bt_Cur, bt_findLeaf(bt_Cur, k).p) = 0
        /\ bt_Delete(bt_Cur, k).err = OK

\* on disk a leaf below the root is never read with fewer than two keys
C26_DiskLeafKeepsTwoKeys ==
    \A k \in StorableKeys : ~OnlyKey(Cur, k)

C27_ParentEntryFoundByOffset ==
    \A p \in Nodes(Cur) : \A i \in 0..(m_ORDER - 2) :
        (~NodeAt(Cur, p).IsLeaf /\ i < NodeAt(Cur, p).Numkeys)
        => /\ getPointerIndex(NodeAt(Cur, p),
                              POff(At(NodeAt(Cur, p).Pointers, i + 1).p)) = i + 1
           /\ getPointerIndex(NodeAt(Cur, p),
                              PNode(At(NodeAt(Cur, p).Pointers, i + 1).p)) = -1

\* the sibling the repair of a node of the file turns to
SiblingOf(t, node) ==
    NodeAt(t, At(NodeAt(t, node.Parent).Pointers,
                 IF Place(t, node) > 0 THEN Place(t, node) - 1 ELSE 1).p)

\* the child that sibling gives up to an internal node: its last child
\* when it stands before the node, its first when it stands after
MovedChild(t, node) ==
    IF Place(t, node) > 0
    THEN At(SiblingOf(t, node).Pointers, SiblingOf(t, node).Numkeys).p
    ELSE At(SiblingOf(t, node).Pointers, 0).p

\* an internal node below the root with a single key, beside a sibling
\* that can spare a child
MustBorrow(t, node) ==
    /\ OnlyKeyInside(t, node)
    /\ SiblingOf(t, node).Numkeys > m_ORDER_HALF - 1

C28_MovedChildHeld ==
    \A p \in Nodes(Cur) :
        MustBorrow(Cur, NodeAt(Cur, p))
        => With(deleteEntry(Cur, NodeAt(Cur, p), At(NodeAt(Cur, p).Keys, 0),
                            At(NodeAt(Cur, p).Pointers, 1)), LAMBDA r :
               /\ r.err = OK
               /\ MovedChild(Cur, NodeAt(Cur, p)) \in Children(NodeAt(r.t, p)))

\* a Delete of key from m leaves the internal root of m without a key
bt_EmptiesRoot(m, key) ==
    /\ m.root # 0 /\ ~m.heap[m.root].IsLeaf
    /\ bt_Delete(m, key).err = OK
    /\ bt_Delete(m, key).t.heap[m.root].Numkeys = 0

\* the in-memory part of C29: the child left to the emptied root is the
\* new root, has no parent and holds every other key of the tree
C29_MemRootReplaced ==
    \A k \in StorableKeys :
        bt_EmptiesRoot(bt_Cur, k)
        => With(bt_Delete(bt_Cur, k).t, LAMBDA after :
               /\ PTreeNode(after.root) = At(after.heap[bt_root].Pointers, 0)
               /\ after.heap[after.root].Parent = 0
               /\ bt_SubtreeKeys(after, after.root, WalkDepth)
                     = bt_SubtreeKeys(bt_Cur, bt_root, WalkDepth) \ {k})

\* a tree whose root is emptied by a Delete that succeeds
C29_MemWitness ==
    \E k \in StorableKeys :
        /\ bt_EmptiesRoot(bt_Cur, k)
        /\ bt_Delete(bt_Cur, k).t.root \notin {0, bt_root}

\* the root of the file is an internal node with a single key
OneKeyRoot(t) ==
    /\ ~t.mp.isNil /\ Readable(t, t.mp.root)
    /\ ~NodeAt(t, t.mp.root).IsLeaf /\ NodeAt(t, t.mp.root).Numkeys = 1

\* the tree on disk after the removal of the root's only key and of the
\* child to the right of it
RootEmptied(t) ==
    deleteEntry(t, NodeAt(t, t.mp.root), At(NodeAt(t, t.mp.root).Keys, 0),
                At(NodeAt(t, t.mp.root).Pointers, 1))

KeysNotAbove(n, key) ==
    Cardinality({i \in 0..(n.Numkeys - 1) : Compare(key, At(n.Keys, i)) >= 0})

\* C31: in both trees the descent at an internal node goes on in the child
\* whose index is the number of keys of the node that the search key is
\* greater than or equal to; a search key equal to keys[i] goes on in
\* pointers[i+1].
C31_DescentByCount ==
    \A k \in StorableKeys :
        /\ \A p \in Nodes(Cur) :
               ~NodeAt(Cur, p).IsLeaf
               => /\ descend(Cur, NodeAt(Cur, p), k)
                        = With(readNode(Cur, At(NodeAt(Cur, p).Pointers,
                                   KeysNotAbove(NodeAt(Cur, p), k)).p),
                               LAMBDA r :
                                   IF r.err # OK THEN r
                                   ELSE descend(Cur, r.node, k))
                  /\ \A i \in 0..(NodeAt(Cur, p).Numkeys - 1) :
                         At(NodeAt(Cur, p).Keys, i) = k
                         => getInsertionIndex(NodeAt(Cur, p), k) = i + 1
        /\ \A p \in bt_Nodes(bt_Cur) :
               ~bt_heap[p].IsLeaf
               => /\ bt_descend(bt_Cur, p, k)
                        = bt_descend(bt_Cur,
                              At(bt_heap[p].Pointers,
                                 KeysNotAbove(bt_heap[p], k)).p, k)
                  /\ \A i \in 0..(bt_heap[p].Numkeys - 1) :
                         At(bt_heap[p].Keys, i) = k
                         => bt_getInsertionIndex(bt_heap[p], k) = i + 1

\* a tree of three levels in which a key of the root and a key of a node
\* below it are searched for and found in a leaf
C31_Witness ==
    \/ /\ ~masterPage.isNil /\ Readable(Cur, masterPage.root)
       /\ \E k \in Keys : \E p \in Nodes(Cur) \ {masterPage.root} :
           /\ ~NodeAt(Cur, p).IsLeaf
           /\ \E i \in 0..(NodeAt(Cur, p).Numkeys - 1) :
                  At(NodeAt(Cur, p).Keys, i) = k
           /\ findLeaf(Cur, k).err = OK
           /\ getKeyIndex(findLeaf(Cur, k).node, k) = 0
    \/ /\ bt_root # 0
       /\ \E k \in Keys : \E p \in bt_Nodes(bt_Cur) \ {bt_root} :
           /\ ~bt_heap[p].IsLeaf
           /\ \E i \in 0..(bt_heap[p].Numkeys - 1) : At(bt_heap[p].Keys, i) = k
           /\ bt_findLeaf(bt_Cur, k).err = OK
           /\ bt_getKeyIndex(bt_heap[bt_findLeaf(bt_Cur, k).p], k) = 0

\* the entries of a leaf: its keys in use, each with its value
Entries(n) ==
    {<<At(n.Keys, i), Bytes(At(n.Pointers, i).b)>> : i \in 0..(n.Numkeys - 1)}

\* an Insert of key into t meets a full leaf and returns no error
SplitsLeaf(t, key, value) ==
    /\ ~t.mp.isNil /\ findLeaf(t, key).err = OK
    /\ findLeaf(t, key).node.Numkeys = m_ORDER - 1
    /\ Insert(t, key, value).err = OK

\* the leaf keeps the ORDER_HALF smallest entries, the page allocated next
\* holds the others, and the leaf's parent holds the first key of that page
\* before the reference to it
LeafSplitInTwo(t, key, value) ==
    With(Insert(t, key, value).t, LAMBDA after :
    With(NodeAt(after, findLeaf(t, key).node.Ptr), LAMBDA left :
    With(NodeAt(after, newPagePtr(t)), LAMBDA right :
    /\ Readable(after, newPagePtr(t)) /\ right.IsLeaf
    /\ left.Numkeys = m_ORDER_HALF
    /\ left.Numkeys + right.Numkeys = m_ORDER
    /\ Entries(left) \cup Entries(right)
          = Entries(findLeaf(t, key).node) \cup {<<key, value>>}
    /\ \A a \in Entries(left) : \A b \in Entries(right) : Compare(a[1], b[1]) < 0
    /\ Readable(after, right.Parent)
    /\ \E i \in 0..(m_ORDER - 2) :
           /\ i < NodeAt(after, right.Parent).Numkeys
           /\ At(NodeAt(after, right.Parent).Keys, i) = At(right.Keys, 0)
           /\ At(NodeAt(after, right.Parent).Pointers, i + 1) = POff(right.Ptr))))

\* C32: on disk, when an Insert splits a full leaf, the leaf keeps the
\* ORDER_HALF smallest of the ORDER entries with their values, the new
\* right sibling holds the other entries with their values, and the key
\* put in the parent is the first key of the sibling, which the sibling
\* still holds.
C32_LeafSplit ==
    \A k \in StorableKeys :
        SplitsLeaf(Cur, k, ValueOf(k)) => LeafSplitInTwo(Cur, k, ValueOf(k))

\* the part of C32 that concerns a tree that was not reopened
C32_LeafSplitSameObject ==
    ~hist.reopened => C32_LeafSplit

\* the keys in use of a node
KeysOf(n) == {At(n.Keys, i) : i \in 0..(n.Numkeys - 1)}

\* an Insert of key into t meets a full leaf under a full parent and
\* returns no error
SplitsInternal(t, key, value) ==
    /\ SplitsLeaf(t, key, value)
    /\ Readable(t, findLeaf(t, key).node.Parent)
    /\ NodeAt(t, findLeaf(t, key).node.Parent).Numkeys = m_ORDER - 1

\* the key of a set of keys with n keys of the set below it
KeyAt(ks, n) ==
    CHOOSE k \in ks : Cardinality({x \in ks : Compare(x, k) < 0}) = n

\* the split of the parent of the leaf that an Insert of key splits: the
\* keys of the transient node are the parent's and the new leaf's first
\* key, its children the parent's and the new leaf; the sibling is the
\* second page the Insert allocates
InternalSplitInTwo(t, key, value) ==
    With(Insert(t, key, value).t, LAMBDA after :
    With(NodeAt(t, findLeaf(t, key).node.Parent), LAMBDA node :
    With(NodeAt(after, findLeaf(t, key).node.Parent), LAMBDA left :
    With(NodeAt(after, newPagePtr(t) + m_PAGE_SIZE), LAMBDA right :
    With(KeysOf(node) \cup {At(NodeAt(after, newPagePtr(t)).Keys, 0)},
         LAMBDA tempKeys :
    /\ Cardinality(tempKeys) = m_ORDER
    /\ Readable(after, newPagePtr(t) + m_PAGE_SIZE) /\ ~right.IsLeaf
    /\ KeysOf(left) = {KeyAt(tempKeys, i) : i \in 0..(m_ORDER_HALF - 1)}
    /\ KeysOf(right) = {KeyAt(tempKeys, i) : i \in (m_ORDER_HALF + 1)..(m_ORDER - 1)}
    /\ left.Numkeys = m_ORDER_HALF
    /\ Cardinality(Children(left)) = m_ORDER_HALF + 1
    /\ right.Numkeys = m_ORDER - m_ORDER_HALF - 1
    /\ Cardinality(Children(right)) = m_ORDER - m_ORDER_HALF
    /\ Children(left) \cap Children(right) = {}
    /\ Children(left) \cup Children(right) = Children(node) \cup {newPagePtr(t)}
    /\ Readable(after, left.Parent) /\ left.Parent = right.Parent
    /\ KeyAt(tempKeys, m_ORDER_HALF) \in KeysOf(NodeAt(after, left.Parent))
    /\ {left.Ptr, right.Ptr} \subseteq Children(NodeAt(after, left.Parent)))))))

\* C33: on disk, when a full internal node is split, the key at index
\* ORDER_HALF of the transient node goes to the parent and stays in
\* neither half; the node keeps ORDER_HALF keys and ORDER_HALF + 1
\* children, the sibling gets the other keys and children, and no child
\* is lost or held twice.
C33_InternalSplit ==
    \A k \in StorableKeys :
        SplitsInternal(Cur, k, ValueOf(k))
        => InternalSplitInTwo(Cur, k, ValueOf(k))

\* the part of C33 that concerns a tree that was not reopened
C33_InternalSplitSameObject ==
    ~hist.reopened => C33_InternalSplit

\* a tree that was not reopened, in which an Insert splits a leaf and the
\* full internal node above it
C33_Witness ==
    /\ ~hist.reopened
    /\ \E k \in StorableKeys :
        /\ SplitsInternal(Cur, k, ValueOf(k))
        /\ Insert(Cur, k, ValueOf(k)).t.mp.pageCount = masterPage.pageCount + 3

\* every child reference of every reachable internal node names a page that
\* records that node's offset as its parent; the root page records parent 0
ParentsRecorded(t) ==
    ~t.mp.isNil =>
       /\ Readable(t, t.mp.root)
       /\ NodeAt(t, t.mp.root).Parent = 0
       /\ \A p \in Nodes(t) : ~NodeAt(t, p).IsLeaf =>
            \A c \in Children(NodeAt(t, p)) :
               Readable(t, c) /\ NodeAt(t, c).Parent = p

\* C34: in the disk tree, after any sequence of Inserts and Deletes, the
\* page of every child reference of every reachable internal node records
\* that node's offset as its parent and the root page records parent 0; an
\* Insert that splits an internal node leaves every moved child with the
\* new sibling's offset as its parent on disk.
C34_ParentsOnDisk ==
    OnlyInsertsAndDeletes =>
       /\ ParentsRecorded(Cur)
       /\ \A k \in StorableKeys :
            SplitsInternal(Cur, k, ValueOf(k)) =>
               With(Insert(Cur, k, ValueOf(k)).t, LAMBDA u :
                  /\ ParentsRecorded(u)
                  /\ \A c \in Children(NodeAt(u, newPagePtr(Cur) + m_PAGE_SIZE)) :
                        NodeAt(u, c).Parent = newPagePtr(Cur) + m_PAGE_SIZE)

\* three levels after Inserts and a Delete: an internal split has moved
\* children to a new sibling below a new root
C34_Witness ==
    /\ OnlyInsertsAndDeletes
    /\ hist.deletes > 0
    /\ ~masterPage.isNil
    /\ \E p \in Children(NodeAt(Cur, masterPage.root)) :
          /\ ~NodeAt(Cur, p).IsLeaf
          /\ Children(NodeAt(Cur, p)) # {}

\* parents are recorded in every reachable file, reopened or not
C34_ParentsOnDiskAlways == ParentsRecorded(Cur)

\* the master page of the file holds the root offset and the page count of
\* the cached master page
MasterPageOnDisk(t) ==
    /\ t.f.master.present
    /\ t.f.master.root = t.mp.root
    /\ t.f.master.pageCount = t.mp.pageCount

\* the call changed the root offset or the page count of the tree object
MasterPageChanged(t, u) ==
    \/ t.mp.isNil # u.mp.isNil
    \/ t.mp.root # u.mp.root
    \/ t.mp.pageCount # u.mp.pageCount

\* C35: in the disk tree, whenever an Insert, Update or Delete that changed
\* the root offset or the page count returns nil, the master page at the
\* start of the file holds exactly the current root offset and page count.
C35_MasterPageWritten ==
    \A k \in StorableKeys :
       \A r \in {Insert(Cur, k, ValueOf(k)), Update(Cur, k, NewValue),
                 Delete(Cur, k)} :
          (r.err = OK /\ MasterPageChanged(Cur, r.t)) => MasterPageOnDisk(r.t)

\* after a Delete, an Insert splits a leaf and the internal root above it:
\* three pages are allotted and the root offset changes
C35_Witness ==
    /\ hist.deletes > 0
    /\ \E k \in StorableKeys :
          With(Insert(Cur, k, ValueOf(k)), LAMBDA r :
             r.err = OK /\ r.t.mp.root # masterPage.root
                        /\ r.t.mp.pageCount = masterPage.pageCount + 3)

\* the page count of a tree object, 0 while it has no master page
PageCount(t) == IF t.mp.isNil THEN 0 ELSE t.mp.pageCount

\* the offsets allotted by a call that took t to u
Allotted(t, u) == {PageOffset(j) : j \in PageCount(t)..(PageCount(u) - 1)}

\* C36: in the disk tree every page is allotted at m_MASTER_PAGE_SIZE +
\* pageCount * m_PAGE_SIZE and pageCount then grows by one: the pages an
\* Insert allots follow the pages of the file one after the other, none of
\* them was a page of the file before, each of them holds a node of its
\* own afterwards, and no Insert, Update, Delete or reopening of the file
\* leaves a smaller pageCount.
C36_PageAllocation ==
    /\ \A k \in StorableKeys :
         /\ \A r \in {Insert(Cur, k, ValueOf(k)), Update(Cur, k, NewValue),
                      Delete(Cur, k)} :
               PageCount(r.t) >= PageCount(Cur)
         /\ With(Insert(Cur, k, ValueOf(k)), LAMBDA r :
               r.err = OK =>
                  /\ \A o \in Allotted(Cur, r.t) : ~Readable(Cur, o)
                  /\ Nodes(r.t) = Nodes(Cur) \cup Allotted(Cur, r.t)
                  /\ Cardinality(Nodes(r.t)) = PageCount(r.t))
    /\ ~masterPage.isNil =>
          PageCount(newTreeFromFile(dbFile)) >= masterPage.pageCount

\* a reopened tree after a Delete, from which an Insert allots three pages
C36_Witness ==
    /\ hist.reopened /\ hist.deletes > 0
    /\ \E k \in StorableKeys :
          With(Insert(Cur, k, ValueOf(k)), LAMBDA r :
             r.err = OK /\ Cardinality(Allotted(Cur, r.t)) = 3)

\* the tree object over its file cut after the first n node pages: every
\* read of a later page ends in io.EOF
ShortFile(t, n) == [t EXCEPT !.f.pages = SubSeq(@, 1, n)]

\* a read of the descent to the leaf of key fails
ReadFails(t, key) == ~t.mp.isNil /\ findLeaf(t, key).err # OK

\* C37: in the disk tree, when a page read fails inside Find, Update, Insert
\* or Delete, the call returns the error of that read and nothing is written
\* after it: with the file cut short, a call whose descent meets a missing
\* page returns the error of the descent and leaves the file as it was.
C37_FirstErrorReturned ==
    \A n \in 0..Len(dbFile.pages) : \A k \in StorableKeys :
       With(ShortFile(Cur, n), LAMBDA t :
          ReadFails(t, k) =>
             /\ Len(k) = t.ks => Find(t, k).err = findLeaf(t, k).err
             /\ Len(k) = t.ks =>
                   Update(t, k, NewValue) = Ret(findLeaf(t, k).err, t)
             /\ Delete(t, k) = Ret(findLeaf(t, k).err, t)
             /\ Insert(t, k, ValueOf(k)) = Ret(findLeaf(t, k).err, t))

\* the part of C37 that concerns Find, Update and Delete
C37_FirstErrorOutsideInsert ==
    \A n \in 0..Len(dbFile.pages) : \A k \in StorableKeys :
       With(ShortFile(Cur, n), LAMBDA t :
          ReadFails(t, k) =>
             /\ Len(k) = t.ks => Find(t, k).err = findLeaf(t, k).err
             /\ Len(k) = t.ks =>
                   Update(t, k, NewValue) = Ret(findLeaf(t, k).err, t)
             /\ Delete(t, k) = Ret(findLeaf(t, k).err, t))

\* an Insert whose descent meets a missing page ends in a nil dereference
\* or in the error of the key size check, never in the error of the read
C37_InsertHidesReadError ==
    \A n \in 0..Len(dbFile.pages) : \A k \in StorableKeys :
       With(ShortFile(Cur, n), LAMBDA t :
          ReadFails(t, k) =>
             Insert(t, k, ValueOf(k)).err \in {PANIC, INVALID_KEY_SIZE_ERROR})

\* The file after each write of a call, in the order the code writes.
Last(s) == s[Len(s)]

\* the writes of the loop that moves children to a new sibling
RECURSIVE moveChildrenWrites(_, _, _)
moveChildrenWrites(t, slots, newParentPtr) ==
    IF slots = <<>> \/ Head(slots).t # "off" \/ ~Readable(t, Head(slots).p)
    THEN <<>>
    ELSE With(writeNode(t, ToBytes([NodeAt(t, Head(slots).p) EXCEPT
                                       !.Parent = newParentPtr]),
                        Head(slots).p), LAMBDA u :
         <<u>> \o moveChildrenWrites(u, Tail(slots), newParentPtr))

\* splitRootAndInsert: the new parent, the node, the new node, then the
\* master page with the new root
splitRootWrites(t, node, newNode, nonLeafKeyToAddToParent) ==
    With([makeNode(newPagePtr(t)) EXCEPT
            !.Keys[1] = IF node.IsLeaf THEN At(newNode.Keys, 0)
                        ELSE nonLeafKeyToAddToParent,
            !.Pointers[1] = POff(node.Ptr),
            !.Pointers[2] = POff(newNode.Ptr),
            !.Numkeys = 1,
            !.Keysize = t.ks], LAMBDA newParent :
    With(writeNode([t EXCEPT !.mp.pageCount = t.mp.pageCount + 1],
                   ToBytes(newParent), newParent.Ptr), LAMBDA t2 :
    With(writeNode(t2, ToBytes([node EXCEPT !.Parent = newParent.Ptr]),
                   node.Ptr), LAMBDA t3 :
    With(writeNode(t3, ToBytes([newNode EXCEPT !.Parent = newParent.Ptr]),
                   newNode.Ptr), LAMBDA t4 :
    <<t2, t3, t4, writeMasterPage([t4 EXCEPT !.mp.root = newParent.Ptr])>>))))

\* recursivelySplitAndInsert: the moved children, then either the writes of
\* splitRootAndInsert or the node, the new node, the master page and the
\* writes at the parent
RECURSIVE splitWrites(_, _, _, _)
splitWrites(t, node, key, pointer) ==
    With(IF node.IsLeaf THEN 0 ELSE 1, LAMBDA adj :
    With(insertIntoNode(tempNodeOf(node), key, pointer), LAMBDA tempNode :
    With(lowerHalf(node, newPagePtr(t), tempNode, adj), LAMBDA node1 :
    With(upperHalf(t, node, newPagePtr(t), tempNode, adj), LAMBDA newNode :
    With([t EXCEPT !.mp.pageCount = t.mp.pageCount + 1], LAMBDA t1 :
    With(IF node.IsLeaf THEN <<>>
         ELSE moveChildrenWrites(t1,
                [i \in 1..(m_ORDER - m_ORDER_HALF) |->
                    tempNode.Pointers[i + m_ORDER_HALF + adj]],
                newNode.Ptr), LAMBDA mw :
    With(IF mw = <<>> THEN t1 ELSE Last(mw), LAMBDA tm :
    IF ~node.IsLeaf /\ Len(mw) < m_ORDER - m_ORDER_HALF THEN mw
    ELSE IF node1.Ptr = tm.mp.root
    THEN mw \o splitRootWrites(tm, node1, newNode,
                               At(tempNode.Keys, m_ORDER_HALF))
    ELSE With(writeNode(tm, ToBytes(node1), node1.Ptr), LAMBDA a :
         With(writeNode(a, ToBytes(newNode), newNode.Ptr), LAMBDA b :
         With(writeMasterPage(b), LAMBDA c :
         With(readNode(c, node1.Parent), LAMBDA r :
         IF r.err # OK THEN mw \o <<a, b, c>>
         ELSE IF r.node.Numkeys < m_ORDER - 1
         THEN With(insertIntoNode(r.node,
                      IF node.IsLeaf THEN At(newNode.Keys, 0)
                      ELSE At(tempNode.Keys, m_ORDER_HALF),
                      PNode(newNode.Ptr)), LAMBDA nodeParent :
              mw \o <<a, b, c, writeNode(c, ToBytes(nodeParent),
                                         nodeParent.Ptr)>>)
         ELSE mw \o <<a, b, c>> \o
              splitWrites(c, r.node,
                          IF node.IsLeaf THEN At(newNode.Keys, 0)
                          ELSE At(tempNode.Keys, m_ORDER_HALF),
                          PNode(newNode.Ptr)))))))))))))

\* Insert: the first Insert writes the master page, then the root leaf
InsertWrites(t, key, value) ==
    IF key = Nil \/ value = Nil \/ Len(key) > MaxUint16 THEN <<>>
    ELSE IF t.mp.isNil
    THEN With([makeLeaf(m_MASTER_PAGE_SIZE) EXCEPT
                 !.Keys[1] = key, !.Pointers[1] = PVal(value),
                 !.Numkeys = 1, !.Keysize = Len(key)], LAMBDA rootNode :
         With(writeMasterPage(
                [t EXCEPT !.ks = Len(key),
                          !.mp = [isNil |-> FALSE, root |-> rootNode.Ptr,
                                  pageCount |-> 1]]), LAMBDA t1 :
         <<t1, writeNode(t1, ToBytes(rootNode), rootNode.Ptr)>>))
    ELSE With(findLeaf(t, key), LAMBDA r :
         IF (r.err = OK /\ getKeyIndex(r.node, key) > -1)
            \/ Len(key) # t.ks \/ r.err # OK
         THEN <<>>
         ELSE IF r.node.Numkeys < m_ORDER - 1
         THEN With(insertIntoNode(r.node, key, PVal(value)), LAMBDA leaf :
              <<writeNode(t, ToBytes(leaf), leaf.Ptr)>>)
         ELSE splitWrites(t, r.node, key, PVal(value)))

\* the root offset of the master page in the file names a page of the file
\* that holds a node image
RootWritten(f) ==
    f.master.present =>
       /\ IsPageOffset(f.master.root)
       /\ PageIndex(f.master.root) < Len(f.pages)
       /\ f.pages[PageIndex(f.master.root) + 1] # ZeroPage

\* the writes listed for an Insert end in the file and the tree object the
\* Insert ends in
WritesOfInsert(t, key, value) ==
    With(InsertWrites(t, key, value), LAMBDA w :
       Insert(t, key, value).t = IF w = <<>> THEN t ELSE Last(w))

\* C38: in the disk tree, after each file write of an operation the root
\* offset in the master page of the file names a page already written with
\* a node image: so it is after every write of every Insert.
C38_RootWrittenBetweenWrites ==
    \A k \in StorableKeys :
       With(InsertWrites(Cur, k, ValueOf(k)), LAMBDA w :
          \A i \in 1..Len(w) : RootWritten(w[i].f))

\* the part of C38 that concerns a tree that is not empty: the writes of
\* every later Insert, root splits included
C38_RootWrittenAfterFirstInsert ==
    ~masterPage.isNil =>
       \A k \in StorableKeys :
          With(InsertWrites(Cur, k, ValueOf(k)), LAMBDA w :
             /\ WritesOfInsert(Cur, k, ValueOf(k))
             /\ \A i \in 1..Len(w) : RootWritten(w[i].f))

\* the writes listed for the first Insert are the writes of the first Insert
C38_FirstInsertWrites ==
    masterPage.isNil =>
       \A k \in StorableKeys : WritesOfInsert(Cur, k, ValueOf(k))

\* from this state an Insert splits a leaf and the internal root above it
\* in eight writes or more
C38_RootSplitReached ==
    \E k \in StorableKeys :
       /\ SplitsInternal(Cur, k, ValueOf(k))
       /\ Insert(Cur, k, ValueOf(k)).t.mp.root # masterPage.root
       /\ Len(InsertWrites(Cur, k, ValueOf(k))) >= 8

\* from 0 to order - 1 keys, strictly ascending, each of len bytes
KeysInOrder(n, order, len) ==
    /\ n.Numkeys \in 0..(order - 1)
    /\ Ascending(SubSeq(n.Keys, 1, n.Numkeys))
    /\ \A i \in 0..(n.Numkeys - 1) : GoLen(At(n.Keys, i)) = len

\* C39, disk tree: every node reachable from the root of the file
C39_DiskNodeKeys ==
    \A p \in Nodes(Cur) : KeysInOrder(NodeAt(Cur, p), m_ORDER, keySize)

\* C39, in-memory tree: every node reachable from the root
C39_MemNodeKeys ==
    \A p \in bt_Nodes(bt_Cur) : KeysInOrder(bt_heap[p], ORDER, bt_keySize)

\* C39: in both trees every node reachable from the root holds from 0 to
\* ORDER - 1 keys, in strictly ascending order, each of the length the
\* tree holds as its key size.
C39_NodeKeys == C39_DiskNodeKeys /\ C39_MemNodeKeys

\* the part of C39 that concerns a disk tree that was not reopened
C39_DiskNodeKeysSameObject == ~hist.reopened => C39_DiskNodeKeys

\* the offsets the descent of findLeaf reads, from node down to the leaf
RECURSIVE DescentPath(_, _, _)
DescentPath(t, node, key) ==
    IF node.IsLeaf THEN <<node.Ptr>>
    ELSE With(At(node.Pointers, getInsertionIndex(node, key)), LAMBDA slot :
         IF slot.t # "off" \/ ~Readable(t, slot.p) THEN <<node.Ptr>>
         ELSE <<node.Ptr>> \o DescentPath(t, NodeAt(t, slot.p), key))

\* the nodes the descent of the in-memory findLeaf visits
RECURSIVE bt_DescentPath(_, _, _)
bt_DescentPath(m, p, key) ==
    IF m.heap[p].IsLeaf THEN <<p>>
    ELSE With(At(m.heap[p].Pointers, bt_getInsertionIndex(m.heap[p], key)),
              LAMBDA slot :
         IF slot.t # "btnode" THEN <<p>>
         ELSE <<p>> \o bt_DescentPath(m, slot.p, key))

\* the number of child references between the root and a reachable node
DepthOf(t, o) == CHOOSE d \in 0..WalkDepth : o \in Level(t, d)
bt_DepthOf(m, p) == CHOOSE d \in 0..WalkDepth : p \in bt_Level(m, d)

\* the descent visits one node of each level and ends at a leaf on the
\* level of all leaves
DescentByLevel(t, key) ==
    With(DescentPath(t, NodeAt(t, t.mp.root), key), LAMBDA path :
       /\ findLeaf(t, key).err = OK
       /\ findLeaf(t, key).node.Ptr = Last(path)
       /\ findLeaf(t, key).node.IsLeaf
       /\ \A i \in 1..Len(path) : path[i] \in Level(t, i - 1)
       /\ Leaves(t) \subseteq Level(t, Len(path) - 1))

bt_DescentByLevel(m, key) ==
    With(bt_DescentPath(m, m.root, key), LAMBDA path :
       /\ bt_findLeaf(m, key) = [err |-> OK, p |-> Last(path)]
       /\ m.heap[Last(path)].IsLeaf
       /\ \A i \in 1..Len(path) : path[i] \in bt_Level(m, i - 1)
       /\ bt_Leaves(m) \subseteq bt_Level(m, Len(path) - 1))

\* a set of depths with one node at most on each level, on adjoining levels
\* from the level of the leaves upwards
OnePerLevel(depths, leafDepth) ==
    \A i \in 1..Len(depths) :
       /\ \A j \in 1..Len(depths) : depths[i] = depths[j] => i = j
       /\ depths[i] = leafDepth \/ \E j \in 1..Len(depths) :
                                       depths[j] = depths[i] + 1

\* the members of a finite set of numbers in ascending order
RECURSIVE InOrder(_)
InOrder(S) ==
    IF S = {} THEN <<>>
    ELSE With(CHOOSE x \in S : \A y \in S : x <= y, LAMBDA x :
         <<x>> \o InOrder(S \ {x}))

\* the nodes a split made are one on each level from the leaves upwards
SplitByLevel(t, u) ==
    With(InOrder(Nodes(u) \ Nodes(t)), LAMBDA new :
       OnePerLevel([i \in 1..Len(new) |-> DepthOf(u, new[i])],
                   DepthOf(u, CHOOSE p \in Leaves(u) : TRUE)))

bt_SplitByLevel(m, u) ==
    With(InOrder(bt_Nodes(u) \ bt_Nodes(m)), LAMBDA new :
       OnePerLevel([i \in 1..Len(new) |-> bt_DepthOf(u, new[i])],
                   bt_DepthOf(u, CHOOSE p \in bt_Leaves(u) : TRUE)))

\* the nodes a Delete dropped were one on each level from the leaves upwards
bt_MergeByLevel(m, u) ==
    With(InOrder(bt_Nodes(m) \ bt_Nodes(u)), LAMBDA gone :
       OnePerLevel([i \in 1..Len(gone) |-> bt_DepthOf(m, gone[i])],
                   bt_DepthOf(m, CHOOSE p \in bt_Leaves(m) : TRUE)))

\* C40: in both trees every Find, Update, Insert and Delete comes to an
\* end: the descent reads one node on each level and ends at a leaf after
\* as many steps as the tree is high; the nodes an Insert adds by splitting
\* are one on each level from the leaf upwards, the new root at the most;
\* the nodes a Delete drops by merging are one on each level from the leaf
\* upwards, the root at the most; and each call ends with a result.
C40_BoundedSteps ==
    /\ ~masterPage.isNil =>
         \A k \in StorableKeys :
            /\ DescentByLevel(Cur, k)
            /\ Find(Cur, k).err \in {OK, KEY_NOT_FOUND_ERROR,
                                     INVALID_KEY_SIZE_ERROR}
            /\ Update(Cur, k, NewValue).err \in
                  {OK, KEY_NOT_FOUND_ERROR, INVALID_KEY_SIZE_ERROR}
            /\ Delete(Cur, k).err \in {OK, KEY_NOT_FOUND_ERROR}
            /\ With(Insert(Cur, k, ValueOf(k)), LAMBDA r :
                  /\ r.err \in {OK, KEY_ALREADY_EXISTS_ERROR,
                                INVALID_KEY_SIZE_ERROR}
                  /\ r.err = OK => SplitByLevel(Cur, r.t))
    /\ bt_root # 0 =>
         \A k \in StorableKeys :
            /\ bt_DescentByLevel(bt_Cur, k)
            /\ bt_Find(bt_Cur, k).err \in {OK, KEY_NOT_FOUND_ERROR,
                                           INVALID_KEY_SIZE_ERROR}
            /\ bt_Update(bt_Cur, k, NewValue).err \in
                  {OK, KEY_NOT_FOUND_ERROR, INVALID_KEY_SIZE_ERROR}
            /\ With(bt_Insert(bt_Cur, k, ValueOf(k)), LAMBDA r :
                  /\ r.err \in {OK, KEY_ALREADY_EXISTS_ERROR,
                                INVALID_KEY_SIZE_ERROR}
                  /\ r.err = OK => bt_SplitByLevel(bt_Cur, r.t))
            /\ With(bt_Delete(bt_Cur, k), LAMBDA r :
                  /\ r.err \in {OK, KEY_NOT_FOUND_ERROR,
                                INVALID_KEY_SIZE_ERROR}
                  /\ (r.err = OK /\ r.t.root # 0) =>
                        bt_MergeByLevel(bt_Cur, r.t))

\* an in-memory tree of three levels from which a Delete drops a leaf, an
\* internal node and the root
C40_Witness ==
    /\ bt_root # 0
    /\ \E k \in StorableKeys :
          /\ Len(bt_DescentPath(bt_Cur, bt_root, k)) = 3
          /\ bt_Delete(bt_Cur, k).err = OK
          /\ Cardinality(bt_Nodes(bt_Cur) \ bt_Nodes(bt_Delete(bt_Cur, k).t)) = 3

\* a disk tree of two levels from which an Insert adds a leaf, an internal
\* node and a new root
C40_DiskWitness ==
    /\ ~masterPage.isNil
    /\ \E k \in StorableKeys :
          /\ Len(DescentPath(Cur, NodeAt(Cur, masterPage.root), k)) = 2
          /\ Insert(Cur, k, ValueOf(k)).err = OK
          /\ Cardinality(Nodes(Insert(Cur, k, ValueOf(k)).t) \ Nodes(Cur)) = 3

---------------------------------------------------------------------------
(* Properties of the example program.                                      *)
K(i) == Sprintf02d(i)

\* C22: once the 16 keys "00" to "15" are inserted in ascending order into
\* an empty in-memory tree, the tree printed level by level is the root
\* [06 12], then [02 04], [08 10], [14], then the eight leaves [00 01] to
\* [14 15].
C22_ReadmeTree ==
    ReadmeIndex = COUNT =>
        bt_Print(bt_Cur) =
            << << <<K(6), K(12)>> >>,
               << <<K(2), K(4)>>, <<K(8), K(10)>>, <<K(14)>> >>,
               << <<K(0), K(1)>>, <<K(2), K(3)>>, <<K(4), K(5)>>,
                  <<K(6), K(7)>>, <<K(8), K(9)>>, <<K(10), K(11)>>,
                  <<K(12), K(13)>>, <<K(14), K(15)>> >> >>

\* all the keys are inserted and one of them was updated
C22_Witness ==
    /\ ReadmeIndex = COUNT
    /\ hist.updates > 0
    /\ Len(bt_Print(bt_Cur)) = 3
    /\ \A i \in 0..(COUNT - 1) : bt_Find(bt_Cur, K(i)).err = OK

---------------------------------------------------------------------------
(* Properties of the two trees side by side.                               *)

\* C21: after the same calls, the next call with a key and a value that are
\* not nil has the same outcome on the tree on disk and on the in-memory
\* tree: the same error, or success with the same value.
C21_SameOutcome ==
    \A k \in StorableKeys :
        /\ Find(Cur, k) = bt_Find(bt_Cur, k)
        /\ Insert(Cur, k, ValueOf(k)).err = bt_Insert(bt_Cur, k, ValueOf(k)).err
        /\ Update(Cur, k, NewValue).err = bt_Update(bt_Cur, k, NewValue).err
        /\ Delete(Cur, k).err = bt_Delete(bt_Cur, k).err

\* the part of C21 that concerns two trees that hold a key
C21_SameOutcomeNotEmpty ==
    (~masterPage.isNil /\ bt_root # 0) => C21_SameOutcome

\* the part of C21 that concerns calls made before any Delete
C21_SameOutcomeBeforeDelete ==
    (~masterPage.isNil /\ bt_root # 0 /\ hist.deletes = 0) => C21_SameOutcome

---------------------------------------------------------------------------
(* Properties of the in-memory tree.                                       *)

\* C3: in the in-memory tree, after Inserts, each key inserted at most
\* once, and Deletes (with borrowing, merging and root demotion), Find
\* returns the inserted value for every live key and KEY_NOT_FOUND for
\* every deleted key.
C3_MemFindAfterInsertsAndDeletes ==
    (hist.updates = 0 /\ ~hist.reinserted) =>
        \A k \in StorableKeys :
            /\ written[k].st = "live"
                  => bt_Find(bt_Cur, k) = [err |-> OK, val |-> written[k].v]
            /\ written[k].st = "dead"
                  => bt_Find(bt_Cur, k).err = KEY_NOT_FOUND_ERROR

====
